---- MODULE Spec2Model ----
(***************************************************************************)
(* A model of src/unnamed/part_000: the reactive core (the observable data *)
(* layer r(), the dependency collector, the watcher w() and the deferred   *)
(* queue), the template function t() and the partial that renders and     *)
(* patches the chunks of one expression.  Program state is threaded        *)
(* through the operators as a record, whose fields are the variables       *)
(* below; every operator that models a function of the source returns the  *)
(* record after the call.                                                  *)
(***************************************************************************)
EXTENDS Integers, Sequences, FiniteSets, TLC

\* ------------------------------------------------------------------ bounds
MaxNum == 1        \* numbers written by the application: 0..MaxNum
MaxObj == 6        \* objects ever allocated (proxies and raw literals)
MaxLen == 3        \* longest list the application builds
MaxTimers == 2     \* application turns start only below this many timers
MaxTurnWrites == 3 \* mutations in one synchronous application turn
MaxInner == 3      \* watchers created inside the evaluation of another watcher
MaxItems == 2      \* longest list of items an expression hands to the renderer
MaxKey == 2        \* keys of the keyed templates: 1..MaxKey
MaxNode == 8       \* DOM nodes alive at a time
MaxUpdates == 2    \* updates of a partial that is handed any list of items
MaxSlots == 2      \* expression slots of a template
MaxList == 2       \* longest list that stands in a slot, or in such a list
MaxDepth == 2      \* lists inside lists inside a slot
MaxSize == 4       \* values (lists and their elements) in the slots of a template
MaxHist == 2       \* entries of the history of the terminal

\* ------------------------------------------------------------------ values
\* A JavaScript value: a tag t and a payload v (a number, or an object id).
Num(n) == [t |-> "num", v |-> n]
Str(n) == [t |-> "str", v |-> n]       \* v = 0 is the empty string
Bool(n) == [t |-> "bool", v |-> n]
Fn(n) == [t |-> "fn", v |-> n]
Undef == [t |-> "undef", v |-> 0]
Null == [t |-> "null", v |-> 0]
NaN == [t |-> "nan", v |-> 0]
Ref(id) == [t |-> "ref", v |-> id]     \* an object of the heap, by identity
Plain(k) == [t |-> "plain", v |-> k]   \* an object literal not yet evaluated

Nums == {Num(n) : n \in 0..MaxNum}

\* typeof
TypeOf(val) ==
    CASE val.t = "num" -> "number"
      [] val.t = "nan" -> "number"
      [] val.t = "str" -> "string"
      [] val.t = "bool" -> "boolean"
      [] val.t = "undef" -> "undefined"
      [] val.t = "fn" -> "function"
      [] OTHER -> "object"

\* ToBoolean, as used by `value && ...`
Truthy(val) ==
    CASE val.t \in {"undef", "null", "nan"} -> FALSE
      [] val.t \in {"num", "str", "bool"} -> val.v # 0
      [] OTHER -> TRUE

\* the + of two operands that are numbers or undefined
Plus(x, y) == IF x.t = "num" /\ y.t = "num" THEN Num(x.v + y.v) ELSE NaN

\* ------------------------------------------------------------------ names
IdxProps == <<"0", "1", "2", "3">>
IsIdx(p) == \E i \in 1..Len(IdxProps) : IdxProps[i] = p
IdxOf(p) == CHOOSE i \in 1..Len(IdxProps) : IdxProps[i] = p
Props == {"a", "b", "c", "x", "l", "length"} \cup {IdxProps[i] : i \in 1..Len(IdxProps)}
ObjIds == 1..MaxObj
\* the watchers a watched function creates, in the order of their creation
InnerNames == <<"I1", "I2", "I3", "I4", "I5">>
Inners == {InnerNames[i] : i \in 1..MaxInner}
Watches == {"W1", "W2", "W3", "W4", "W5", "W6", "W7"} \cup Inners
Ticks == {"T1"}     \* the post-flush callbacks of the application
NoParent == [k |-> "", o |-> 0]

\* The object literals of the application (the argument of r() and the
\* right-hand sides of assignments).  Literal k in 0..MaxNum+1 is {c: k}.
LitRoot == MaxNum + 2
LitOther == MaxNum + 3
LitList == MaxNum + 4
LitDeep == MaxNum + 5      \* {c: {c: 0}}
Lits == (0..(MaxNum + 1)) \cup {LitRoot, LitOther, LitList, LitDeep}
LitIsArray(k) == k = LitList
LitKeys(k) ==
    CASE k = LitRoot -> <<"a", "b", "l">>
      [] k = LitOther -> <<"x">>
      [] k = LitList -> <<"0">>
      [] OTHER -> <<"c">>
LitEntry(k, p) ==
    CASE k = LitRoot /\ p = "a" -> Num(0)
      [] k = LitRoot /\ p = "b" -> Plain(0)
      [] k = LitRoot /\ p = "l" -> Plain(LitList)
      [] k = LitOther -> Num(0)
      [] k = LitList -> Num(0)
      [] k = LitDeep -> Plain(0)
      [] OTHER -> Num(k)
\* the number of objects the literal holds, itself included
LitSize(k) == CASE k = LitRoot -> 3 [] k = LitDeep -> 2 [] OTHER -> 1

\* ------------------------------------------------------------------ state
VARIABLES
    \* the program
    nobj,     \* number of objects allocated so far
    react,    \* react[o]: o is a reactive proxy (it has $on); else a raw object
    isArr,    \* isArr[o]: the proxy was built from an array
    keys,     \* keys[o]: the own enumerable keys of the object, in order
    fld,      \* fld[o][p]: the value of property p of the proxy's target
    omap,     \* omap[o]: identity of the observers/observerProperties maps
    par,      \* par[o]: the _p link, [k |-> property, o |-> parent]
    obs,      \* obs[m][p]: observers.get(p), in insertion order
    okeys,    \* okeys[m]: the keys of the observers map, in insertion order
    obsProps, \* obsProps[m][c]: observerProperties.get(c)
    deps,     \* deps[w]: currentDeps of watcher w: (proxy, property) pairs, in Map order
    coll,     \* the tracking ids present in dependencyCollector
    queue,    \* queueStack, in insertion order
    ticks,    \* nextTicks: the registered post-flush callbacks
    timers,   \* pending setTimeout(executeQueue) timers
    seen,     \* seen[w]: the value of w's last completed evaluation
    failed,   \* failed[w]: w's last evaluation threw
    \* the event loop
    inTurn,   \* a synchronous application turn is in progress
    nwrites,  \* mutations made so far in this turn
    \* what the last operation did (recorded by the data specification)
    last,     \* its name, target, argument, old value, result (and r() of the result)
    emits,    \* the calls c(newValue, oldValue) it made, in order
    threw,    \* it ended by throwing
    post,     \* the subscriptions each post-processing step it ran found
    \* what the scheduler did (recorded by the scheduler specification)
    notes,    \* notes[w]: the properties whose change called w's callback this turn
    passRuns, \* passRuns[w]: evaluations of w in the last flush pass
    flushes,  \* flush passes run since the current turn began (capped at 2)
    fresh,    \* watchers evaluated after the latest call of their callback
    dupRuns,  \* watchers the last pass ran although they were fresh
    settled,  \* how the last post-flush callback found the queue
    \* the partial of one expression of a template, and the document
    pchunks,  \* previousChunks: the chunks of the last render or update
    keyed,    \* keyedChunks: keyed[k] is the chunk of key k (key 0: none yet)
    doc,      \* the child nodes of the element the expression stands in, in order
    nodes,    \* nodes[i]: the node i: its group tag, its kind, what it shows
    rlast,    \* the last operation of the renderer, and the state it found
    \* one template
    tpl,      \* its slots, its cached markup, its expressions, its key
    \* the terminal of the page
    svc       \* the service of the terminal machine, and what its last send did

prog == <<nobj, react, isArr, keys, fld, omap, par, obs, okeys, obsProps, deps,
          coll, queue, ticks, timers, seen, failed>>
loop == <<inTurn, nwrites>>
datalog == <<last, emits, threw, post>>
schedlog == <<notes, passRuns, flushes, fresh, dupRuns, settled>>
rend == <<pchunks, keyed, doc, nodes, rlast, tpl, svc>>
vars == <<prog, loop, datalog, schedlog, rend>>

\* The program state as one record, for the operators below.
Cur ==
    [nobj |-> nobj, react |-> react, isArr |-> isArr, keys |-> keys,
     fld |-> fld, omap |-> omap, par |-> par, obs |-> obs, okeys |-> okeys,
     obsProps |-> obsProps, deps |-> deps, coll |-> coll, queue |-> queue,
     ticks |-> ticks, timers |-> timers, seen |-> seen, failed |-> failed,
     emits |-> <<>>, threw |-> FALSE, post |-> <<>>,
     notes |-> notes, passRuns |-> passRuns, fresh |-> fresh, settled |-> settled,
     trk |-> [w \in Watches |-> <<>>], exps |-> tpl.exps]

NoProps == [p \in Props |-> Undef]
Empty ==
    [nobj |-> 0,
     react |-> [o \in ObjIds |-> FALSE],
     isArr |-> [o \in ObjIds |-> FALSE],
     keys |-> [o \in ObjIds |-> <<>>],
     fld |-> [o \in ObjIds |-> NoProps],
     omap |-> [o \in ObjIds |-> o],
     par |-> [o \in ObjIds |-> NoParent],
     obs |-> [m \in ObjIds |-> [p \in Props |-> <<>>]],
     okeys |-> [m \in ObjIds |-> <<>>],
     obsProps |-> [m \in ObjIds |-> [c \in Watches |-> {}]],
     deps |-> [w \in Watches |-> <<>>],
     coll |-> {},
     queue |-> <<>>, ticks |-> {}, timers |-> 0,
     emits |-> <<>>, threw |-> FALSE, post |-> <<>>,
     seen |-> [w \in Watches |-> Undef],
     failed |-> [w \in Watches |-> FALSE],
     notes |-> [w \in Watches |-> {}],
     passRuns |-> [w \in Watches |-> 0],
     fresh |-> {},
     settled |-> "none",
     trk |-> [w \in Watches |-> <<>>], exps |-> <<>>]

Range(s) == {s[i] : i \in 1..Len(s)}
Without(s, e) == SelectSeq(s, LAMBDA y : y # e)

\* isR(obj): an object that has $on
isR(h, val) == val.t = "ref" /\ h.react[val.v]

\* Set.prototype.add on an insertion-ordered set
SetAdd(s, e) == IF e \in Range(s) THEN s ELSE Append(s, e)

\* ------------------------------------------------------------------ queue
\* queueStack kept as a list: the same watcher is queued once per call
QueueAddAgain(q, fn) == Append(q, fn)
\* queueStack.add(fn)
QueueAdd(q, fn) == SetAdd(q, fn)

\* the callback queue(fn) returns, called by _em
QueueCb(h, fn) ==
    [h EXCEPT !.timers = IF Len(h.queue) = 0 THEN @ + 1 ELSE @,
              !.queue = QueueAdd(@, fn),
              !.fresh = @ \ {fn}]

\* ------------------------------------------------------------------ r()
\* a dep('add') that leaves observerProperties alone
OnObsOnly(h, o, p, c) ==
    [h EXCEPT !.okeys[h.omap[o]] = SetAdd(@, p),
              !.obs[h.omap[o]][p] = SetAdd(@, c)]
\* dep('add') and dep('delete')
On(h, o, p, c) ==
    [h EXCEPT !.okeys[h.omap[o]] = SetAdd(@, p),
              !.obs[h.omap[o]][p] = SetAdd(@, c),
              !.obsProps[h.omap[o]][c] = @ \cup {p}]
Off(h, o, p, c) ==
    [h EXCEPT !.okeys[h.omap[o]] = SetAdd(@, p),
              !.obs[h.omap[o]][p] = Without(@, c),
              !.obsProps[h.omap[o]][c] = @ \ {p}]

\* _em: call every observer of the property, in insertion order
RECURSIVE EmFrom(_, _, _, _, _, _, _)
EmFrom(h, cbs, i, o, p, nv, ov) ==
    IF i > Len(cbs) THEN h
    ELSE EmFrom([QueueCb(h, cbs[i]) EXCEPT
                    !.emits = Append(@, [o |-> o, p |-> p, c |-> cbs[i],
                                         nv |-> nv, ov |-> ov]),
                    !.notes[cbs[i]] = @ \cup {p}],
                cbs, i + 1, o, p, nv, ov)
Em(h, o, p, nv, ov) == EmFrom(h, h.obs[h.omap[o]][p], 1, o, p, nv, ov)

\* tracker.get(proxy).add(property) for each tracker of ids
Track(h, ids, o, p) ==
    [h EXCEPT !.trk = [w \in Watches |->
                          IF w \in ids THEN SetAdd(h.trk[w], <<o, p>>) ELSE h.trk[w]]]
\* a get trap that records only the reads that yield a leaf value
AddDepLeaf(h, o, p) == IF isR(h, h.fld[o][p]) THEN h ELSE Track(h, h.coll, o, p)
\* addDep: every tracker of dependencyCollector records the read
AddDep(h, o, p) == Track(h, h.coll, o, p)

\* the value of a property of the proxy's target
PropVal(h, o, p) ==
    IF h.isArr[o] /\ p = "length" THEN Num(Len(h.keys[o])) ELSE h.fld[o][p]

\* the entries of the data handed to r(): a literal, or a raw object
DataKeys(h, data) ==
    CASE data.t = "plain" -> LitKeys(data.v)
      [] data.t = "ref" -> h.keys[data.v]
      [] OTHER -> <<>>
DataEntry(h, data, p) ==
    IF data.t = "plain" THEN LitEntry(data.v, p) ELSE h.fld[data.v][p]
DataIsArray(h, data) ==
    CASE data.t = "plain" -> LitIsArray(data.v)
      [] data.t = "ref" -> h.isArr[data.v]
      [] OTHER -> FALSE

\* "If this is already reactive or a non object, just return it."
\* the guard without its isR test: every object is wrapped anew
PassesObjectsOnly(h, data) == TypeOf(data) # "object"
Passes(h, data) == isR(h, data) \/ TypeOf(data) # "object"

NoState == [o |-> 0, p |-> NoParent]
\* a state without the parent link
StateOfNoParent(h, o) == [o |-> h.omap[o], p |-> NoParent]
\* _st()
StateOf(h, o) == [o |-> h.omap[o], p |-> h.par[o]]

RECURSIVE R(_, _, _), RKids(_, _, _, _), RParents(_, _, _)
\* proxySource[property] = the wrapped entry
RKidPut(w, self, p) == [w.h EXCEPT !.fld[self][p] = w.v]
\* one turn of the for-in loop of r(): copy the entry, wrapping a nested object
RKid(h, self, p, entry) ==
    IF TypeOf(entry) = "object" /\ entry.t # "null" /\ ~isR(h, entry)
    THEN RKidPut(R(h, entry, NoState), self, p)
    ELSE [h EXCEPT !.fld[self][p] = entry]
\* the for-in loop of r()
RKids(h, self, data, i) ==
    IF i > Len(DataKeys(h, data)) THEN h
    ELSE RKids(RKid(h, self, DataKeys(h, data)[i],
                    DataEntry(h, data, DataKeys(h, data)[i])),
               self, data, i + 1)
\* children.map((c) => proxy[c]._p = [c, proxy])
RParents(h, self, i) ==
    IF i > Len(h.keys[self]) THEN h
    ELSE IF h.fld[self][h.keys[self][i]].t = "ref"
         THEN RParents([AddDep(h, self, h.keys[self][i]) EXCEPT
                            !.par[h.fld[self][h.keys[self][i]].v] =
                                [k |-> h.keys[self][i], o |-> self]], self, i + 1)
         ELSE RParents(h, self, i + 1)
\* new Proxy(proxySource, ...) with the observers and the parent of the state
RNew(h, self, data, st) ==
    [h EXCEPT !.nobj = self,
              !.react[self] = TRUE,
              !.isArr[self] = DataIsArray(h, data),
              !.keys[self] = DataKeys(h, data),
              !.omap[self] = IF st.o # 0 THEN st.o ELSE self,
              !.par[self] = st.p]
\* r(data, state): the result is [h |-> state after, v |-> value returned]
R(h, data, st) ==
    IF Passes(h, data) THEN [h |-> h, v |-> data]
    ELSE [h |-> RParents(RKids(RNew(h, h.nobj + 1, data, st),
                               h.nobj + 1, data, 1),
                         h.nobj + 1, 1),
          v |-> Ref(h.nobj + 1)]

\* the raw objects a raw object holds, itself included
RECURSIVE RawSize(_, _), RawSizes(_, _, _)
RawSize(h, o) == 1 + RawSizes(h, o, 1)
RawSizes(h, o, i) ==
    IF i > Len(h.keys[o]) THEN 0
    ELSE (IF h.fld[o][h.keys[o][i]].t = "ref" /\ ~h.react[h.fld[o][h.keys[o][i]].v]
          THEN RawSize(h, h.fld[o][h.keys[o][i]].v) ELSE 0)
         + RawSizes(h, o, i + 1)
\* the number of proxies r(data) allocates
RNeeds(h, data) ==
    CASE data.t = "plain" -> LitSize(data.v)
      [] data.t = "null" -> 1
      [] data.t = "ref" /\ ~h.react[data.v] -> RawSize(h, data.v)
      [] OTHER -> 0

\* the evaluation of an object literal that is stored unwrapped: a raw object
RECURSIVE Mat(_, _), MatKids(_, _, _, _)
MatPut(m, self, p) == [m.h EXCEPT !.fld[self][p] = m.v]
MatKids(h, self, data, i) ==
    IF i > Len(LitKeys(data.v)) THEN h
    ELSE MatKids(MatPut(Mat(h, LitEntry(data.v, LitKeys(data.v)[i])),
                        self, LitKeys(data.v)[i]),
                 self, data, i + 1)
MatNew(h, self, data) ==
    [h EXCEPT !.nobj = self,
              !.isArr[self] = LitIsArray(data.v),
              !.keys[self] = LitKeys(data.v)]
Mat(h, data) ==
    IF data.t # "plain" THEN [h |-> h, v |-> data]
    ELSE [h |-> MatKids(MatNew(h, h.nobj + 1, data), h.nobj + 1, data, 1),
          v |-> Ref(h.nobj + 1)]

\* reactiveMerge(reactiveTarget, reactiveSource)
RECURSIVE MergeCbs(_, _, _, _, _), MergeProps(_, _, _, _)
MergeCbs(h, target, p, cbs, j) ==
    IF j > Len(cbs) THEN h
    ELSE MergeCbs(On(h, target, p, cbs[j]), target, p, cbs, j + 1)
MergeProps(h, target, source, i) ==
    IF i > Len(h.okeys[h.omap[source]]) THEN h
    ELSE MergeProps(MergeCbs(h, target, h.okeys[h.omap[source]][i],
                             h.obs[h.omap[source]][h.okeys[h.omap[source]][i]], 1),
                    target, source, i + 1)
\* reactiveTarget._p = state.p
MergeParent(h, target, p) ==
    IF p # NoParent THEN [h EXCEPT !.par[target] = p] ELSE h
ReactiveMerge(h, target, source) ==
    MergeParent(MergeProps(h, target, source, 1), target, h.par[source])

\* Reflect.set(target, property, value) on the proxy's target
Store(h, o, p, val) ==
    [h EXCEPT !.fld[o][p] = val,
              !.keys[o] = IF p = "length" THEN @ ELSE SetAdd(@, p)]

\* The loop of the set trap over the keys of the old observers map once the
\* new value is stored: old and new are read through their proxies.
RECURSIVE SetDiff(_, _, _, _, _)
\* Reflect.get(old, property) and Reflect.get(newR, property) go through the
\* get traps
SetDiffReads(h, old, newR, q) ==
    IF isR(h, newR) THEN AddDep(AddDep(h, old, q), newR.v, q) ELSE AddDep(h, old, q)
SetDiffNew(h, newR, q) == IF newR.t = "fn" THEN Undef ELSE PropVal(h, newR.v, q)
SetDiffOne(h, old, newR, q) ==
    IF PropVal(h, old, q) # SetDiffNew(h, newR, q)
    THEN Em(h, old, q, SetDiffNew(h, newR, q), PropVal(h, old, q))
    ELSE h
SetDiff(h, old, newR, ks, i) ==
    IF i > Len(ks) \/ h.threw THEN h
    ELSE IF newR.t \notin {"ref", "fn"}
         THEN [AddDep(h, old, ks[i]) EXCEPT !.threw = TRUE]  \* Reflect.get on a non-object
         ELSE SetDiff(SetDiffOne(SetDiffReads(h, old, newR, ks[i]), old, newR, ks[i]),
                      old, newR, ks, i + 1)

\* newR = isR(value) ? reactiveMerge(value, o) : r(value, oldState)
SetNewR(h, value, old) ==
    IF isR(h, value)
    THEN [h |-> ReactiveMerge(h, value.v, old), v |-> value]
    ELSE R(h, value, StateOf(h, old))
\* Reflect.set(newR); _em(property, newR); oldState.o.forEach(...)
SetTransferOf(h, w, o, p, old) ==
    SetDiff(Em(Store(w.h, o, p, w.v), o, p, w.v, Undef),
            old, w.v, h.okeys[h.omap[old]], 1)
\* the branch of the set trap that replaces a reactive value
SetTransfer(h, o, p, value) ==
    SetTransferOf(h, SetNewR(h, value, PropVal(h, o, p).v), o, p, PropVal(h, o, p).v)

\* a notification that climbs one more level of the tree
SetParentEmUp(h, pr) ==
    IF pr # NoParent THEN Em(h, pr.o, pr.k, Ref(pr.o), Undef) ELSE h
SetParentEmAll(h, pr) ==
    IF pr # NoParent
    THEN SetParentEmUp(Em(h, pr.o, pr.k, Ref(pr.o), Undef), h.par[pr.o])
    ELSE h
\* if (proxy._p) proxy._p[1]._em(...proxy._p)
SetParentEm(h, pr) ==
    IF pr # NoParent THEN Em(h, pr.o, pr.k, Ref(pr.o), Undef) ELSE h
\* Reflect.set(...args); if (old !== value) _em(property, value, old)
SetDirectOf(h, m, o, p, old) ==
    SetParentEm(IF old # m.v THEN Em(Store(m.h, o, p, m.v), o, p, m.v, old)
                ELSE Store(m.h, o, p, m.v),
                h.par[o])
\* the rest of the set trap
SetDirect(h, o, p, value) == SetDirectOf(h, Mat(h, value), o, p, PropVal(h, o, p))

TakesTransfer(h, o, p, value) == Truthy(value) /\ isR(h, PropVal(h, o, p))

\* the set trap of the proxy: proxy[p] = value
Set(h, o, p, value) ==
    IF TakesTransfer(h, o, p, value)
    THEN SetTransfer(h, o, p, value)
    ELSE SetDirect(h, o, p, value)

\* the number of objects proxy[p] = value allocates
SetNeeds(h, o, p, value) ==
    IF TakesTransfer(h, o, p, value) THEN RNeeds(h, value)
    ELSE IF value.t = "plain" THEN LitSize(value.v) ELSE 0

\* ------------------------------------------------------------------ lists
Elems(h, o) == [i \in 1..Len(h.keys[o]) |-> h.fld[o][IdxProps[i]]]
SetElems(h, o, es) ==
    [h EXCEPT !.keys[o] = SubSeq(IdxProps, 1, Len(es)),
              !.fld[o] = [p \in Props |->
                            IF IsIdx(p) /\ IdxOf(p) <= Len(es) THEN es[IdxOf(p)]
                            ELSE IF IsIdx(p) THEN Undef ELSE @[p]]]

\* arr.forEach((item, i) => proxy._em(String(i), item))
RECURSIVE EmEach(_, _, _)
EmEach(h, o, i) ==
    IF i > Len(h.keys[o]) THEN h
    ELSE EmEach(Em(h, o, IdxProps[i], h.fld[o][IdxProps[i]], Undef), o, i + 1)

\* the arguments of l.splice(start, remove, ...ins) and l.copyWithin(target, start)
SpliceArgs(start, remove, ins) ==
    [t |-> "args", start |-> start, remove |-> remove, ins |-> ins]
CopyArgs(target, start) == [t |-> "args", target |-> target, start |-> start]
Min(a, b) == IF a < b THEN a ELSE b
\* the default order of sort(): by the string of the element, a digit before
\* "[object Object]", undefined last
SortKey(v) ==
    CASE v.t = "num" -> v.v
      [] v.t = "undef" -> MaxNum + 2
      [] OTHER -> MaxNum + 1
RECURSIVE SortInto(_, _), SortAll(_, _, _)
SortInto(s, e) ==
    IF s = <<>> \/ SortKey(s[Len(s)]) <= SortKey(e) THEN Append(s, e)
    ELSE Append(SortInto(SubSeq(s, 1, Len(s) - 1), e), s[Len(s)])
SortAll(es, i, acc) ==
    IF i > Len(es) THEN acc ELSE SortAll(es, i + 1, SortInto(acc, es[i]))
Spliced(es, start, remove, ins) ==
    SubSeq(es, 1, start) \o ins \o SubSeq(es, start + remove + 1, Len(es))
\* Array.prototype[op].call(arr, ...args)
Native(es, op, arg) ==
    CASE op = "push" -> Append(es, arg)
      [] op = "unshift" -> <<arg>> \o es
      [] op = "pop" -> IF Len(es) = 0 THEN es ELSE SubSeq(es, 1, Len(es) - 1)
      [] op = "shift" -> IF Len(es) = 0 THEN es ELSE Tail(es)
      [] op = "reverse" -> [i \in 1..Len(es) |-> es[Len(es) + 1 - i]]
      [] op = "sort" -> SortAll(es, 1, <<>>)
      [] op = "fill" -> [i \in 1..Len(es) |-> arg]
      [] op = "splice" ->
            Spliced(es, Min(arg.start, Len(es)),
                    Min(arg.remove, Len(es) - Min(arg.start, Len(es))), arg.ins)
      [] op = "copyWithin" ->
            [i \in 1..Len(es) |->
                IF i > arg.target /\ i - arg.target + arg.start <= Len(es)
                THEN es[i - arg.target + arg.start] ELSE es[i]]

\* if (proxy._p) parent._em(property, proxy)
ListParentEm(h, o, pr) ==
    IF pr # NoParent THEN Em(h, pr.o, pr.k, Ref(o), Undef) ELSE h
\* a synthetic that notifies before it mutates the array
SyntheticEmFirst(h, w, o, op) ==
    SetElems(ListParentEm(EmEach(w.h, o, 1), o, h.par[o]),
             o, Native(Elems(w.h, o), op, w.v))
\* synthetic(...args) with the arguments already wrapped
Synthetic(h, w, o, op) ==
    ListParentEm(EmEach(SetElems(w.h, o, Native(Elems(w.h, o), op, w.v)), o, 1),
                 o, h.par[o])
\* inserts.map((arg) => r(arg)) for at most one insert
WithIns(w, arg) == [h |-> w.h, v |-> [arg EXCEPT !.ins = <<w.v>>]]
SpliceWrapped(h, arg) ==
    IF arg.ins = <<>> THEN [h |-> h, v |-> arg]
    ELSE WithIns(R(h, arg.ins[1], NoState), arg)
\* the arguments of op as synthetic gets them
Wrapped(h, op, arg) ==
    CASE op \in {"push", "unshift", "fill"} -> R(h, arg, NoState)
      [] op = "splice" -> SpliceWrapped(h, arg)
      [] OTHER -> [h |-> h, v |-> arg]
\* the arguments of op handed to synthetic as they are, object literals
\* evaluated
Unwrapped(h, op, arg) ==
    CASE op \in {"push", "unshift", "fill"} -> Mat(h, arg)
      [] op = "splice" /\ arg.ins # <<>> -> WithIns(Mat(h, arg.ins[1]), arg)
      [] OTHER -> [h |-> h, v |-> arg]
ArrayOperationRaw(h, o, op, arg) == Synthetic(h, Unwrapped(h, op, arg), o, op)
\* the function arrayOperation returns for op, applied to arg
ArrayOperation(h, o, op, arg) == Synthetic(h, Wrapped(h, op, arg), o, op)
\* the number of proxies the call allocates
ArgNeeds(h, op, arg) ==
    CASE op \in {"push", "unshift", "fill"} -> RNeeds(h, arg)
      [] op = "splice" /\ arg.ins # <<>> -> RNeeds(h, arg.ins[1])
      [] OTHER -> 0

\* ------------------------------------------------------------------ w()
\* The application: root = r({a: 0, b: {c: 0}, l: [0]}), other = r({x: 0}),
\* l = root.l, and four watchers created in this order:
\*   W1 = w(() => root.a + root.b.c)
\*   W2 = w(() => { other.x = root.a; return root.a })
\*   W3 = w(() => other.x)
\*   W4 = w(() => l.length + l[0])
\* r() numbers the proxies in the order it finishes their allocation
RootId == 1
BId0 == RootId + 1       \* b0 = root.b, kept by the application
ListId == RootId + 2
OtherId == RootId + 3
Built0 == R(Empty, Plain(LitRoot), NoState)
Built1 == R(Built0.h, Plain(LitOther), NoState)
WatchOrder == <<"W1", "W2", "W3", "W4">>

\* base.p in an expression: [h, v, threw]
Member(h, base, p) ==
    CASE base.t \in {"undef", "null"} -> [h |-> h, v |-> Undef, threw |-> TRUE]
      [] base.t = "ref" /\ h.react[base.v] ->
            [h |-> AddDep(h, base.v, p), v |-> PropVal(h, base.v, p), threw |-> FALSE]
      [] base.t = "ref" /\ ~h.react[base.v] ->
            [h |-> h, v |-> PropVal(h, base.v, p), threw |-> FALSE]
      [] OTHER -> [h |-> h, v |-> Undef, threw |-> FALSE]

\* x + c, after both reads
SumOf(x, c) == [h |-> c.h, v |-> Plus(x.v, c.v), threw |-> c.threw]
\* root.a + root.b.c
W1C(x, b) == SumOf(x, Member(b.h, b.v, "c"))
W1B(x) == W1C(x, Member(x.h, Ref(RootId), "b"))
\* other.x = root.a; return root.a
W2Done(x, h1) == [h |-> h1, v |-> x.v, threw |-> h1.threw]
W2Set(x) == W2Done(x, Set(x.h, OtherId, "x", x.v))
\* l.length + l[0]
W4Elem(n) == SumOf(n, Member(n.h, Ref(ListId), "0"))
\* root.l[1]
W6Elem(n) == IF n.threw THEN n ELSE Member(n.h, n.v, "1")


\* The application with nested watchers creates one watcher only, which
\* creates another each time it is evaluated:
\*   W5 = w(() => root.a + w(() => other.x) + l[0])
RECURSIVE Body(_, _), CallFn(_, _)
\* the functions the template of the chained application holds in its slot:
\*   1: () => root.a      2: () => other.x
FnBody(h, f) ==
    IF f = 1 THEN Member(h, Ref(RootId), "a") ELSE Member(h, Ref(OtherId), "x")
\* the watcher the next w() in W5 creates
FreeInners(h) == {i \in 1..MaxInner : h.deps[InnerNames[i]] = <<>>}
NextInner(h) ==
    InnerNames[IF FreeInners(h) = {} THEN MaxInner
               ELSE CHOOSE i \in FreeInners(h) : \A j \in FreeInners(h) : i <= j]
\* root.a + w(...) + l[0]
W5Made(x, h1, i) ==
    SumOf([x EXCEPT !.v = Plus(x.v, h1.seen[i])], Member(h1, Ref(ListId), "0"))
W5Inner(x, i) == W5Made(x, CallFn(x.h, i), i)

\* fn(): the body of the watched function
Body(h, w) ==
    CASE w = "W1" -> W1B(Member(h, Ref(RootId), "a"))
      [] w = "W2" -> W2Set(Member(h, Ref(RootId), "a"))
      [] w = "W3" -> Member(h, Ref(OtherId), "x")
      [] w = "W4" -> W4Elem(Member(h, Ref(ListId), "length"))
      [] w = "W5" -> W5Inner(Member(h, Ref(RootId), "a"), NextInner(h))
      [] w = "W6" -> W6Elem(Member(h, Ref(RootId), "l"))
      [] w = "W7" -> FnBody(h, h.exps[1].expression)
      [] w \in Inners -> Member(h, Ref(OtherId), "x")

\* the pairs of a tracker in the order its Map of Sets is iterated
RECURSIVE Grouped(_)
Grouped(t) ==
    IF t = <<>> THEN <<>>
    ELSE SelectSeq(t, LAMBDA e : e[1] = t[1][1])
         \o Grouped(SelectSeq(t, LAMBDA e : e[1] # t[1][1]))

RECURSIVE OffAll(_, _, _, _, _), OnAll(_, _, _, _)
\* currentDeps.forEach: $off the properties that were not read again
OffAll(h, w, cur, new, i) ==
    IF i > Len(cur) THEN h
    ELSE OffAll(IF cur[i] \in Range(new) THEN h ELSE Off(h, cur[i][1], cur[i][2], w),
                w, cur, new, i + 1)
\* newDeps.forEach: $on every property read
OnAll(h, w, new, i) ==
    IF i > Len(new) THEN h
    ELSE OnAll(On(h, new[i][1], new[i][2], w), w, new, i + 1)

\* a callFn that catches what fn() throws
CallFnCaught(h, w) == [h EXCEPT !.failed[w] = TRUE]
\* a callFn that drops the subscriptions of the watcher when fn() throws
CallFnThrewOff(h, w) ==
    [OffAll(h, w, h.deps[w], <<>>, 1) EXCEPT !.threw = TRUE, !.failed[w] = TRUE]
\* callFn after fn() threw: the collector entry stays, the subscriptions too
CallFnThrew(h, w) == [h EXCEPT !.threw = TRUE, !.failed[w] = TRUE]
\* a callFn that empties dependencyCollector when fn() returns
CallFnCleared(h, w) == [h EXCEPT !.coll = {}]
\* dependencyCollector.delete(trackingId)
CallFnCollected(h, w) == [h EXCEPT !.coll = @ \ {w}]
\* the (Observable, property) pairs whose observer set holds w's callback
SubsOf(h, w) ==
    {s \in (1..h.nobj) \X Props :
        h.react[s[1]] /\ w \in Range(h.obs[h.omap[s[1]]][s[2]])}
\* currentDeps = newDeps; return after ? after(value) : value
CallFnAfter(h, w, e, newDeps) ==
    [h EXCEPT !.deps[w] = newDeps,
              !.seen[w] = e.v,
              !.failed[w] = FALSE,
              !.passRuns[w] = @ + 1,
              !.fresh = @ \cup {w},
              !.post = Append(@, [c |-> w, subs |-> SubsOf(h, w)])]
\* a callFn that never calls $off
CallFnKeepsAll(h, w, e, newDeps) ==
    CallFnAfter(OnAll(CallFnCollected(e.h, w), w, newDeps, 1), w, e, newDeps)
\* callFn after fn() returned e.v having read newDeps
CallFnDone(h, w, e, newDeps) ==
    CallFnAfter(OnAll(OffAll(CallFnCollected(e.h, w), w, h.deps[w], newDeps, 1),
                      w, newDeps, 1),
                w, e, newDeps)
CallFnOf(h, w, e) ==
    IF e.threw THEN CallFnThrew(e.h, w) ELSE CallFnDone(h, w, e, Grouped(e.h.trk[w]))
\* callFn of watcher w
CallFn(h, w) ==
    CallFnOf(h, w, Body([h EXCEPT !.coll = @ \cup {w}, !.trk[w] = <<>>], w))

\* $on of the expression descriptor j: observer = obs
DescOn(h, j, w) == [h EXCEPT !.exps[j].observer = w]
\* w(fn, after) for a function that has $on: fn.$on(callFn); return callFn()
WatchDesc(h, j, w) == CallFn(DescOn(h, j, w), w)
\* an _up that binds the new function and calls nobody
DescUpSilent(h, j, g) == [h EXCEPT !.exps[j].expression = g]
\* _up of the expression descriptor j: expression = exp; observer()
DescUp(h, j, g) ==
    IF h.exps[j].observer = "" THEN [h EXCEPT !.exps[j].expression = g]
    ELSE CallFn([h EXCEPT !.exps[j].expression = g], h.exps[j].observer)

\* the value fn() would return now, without tracking
ExprValOf(e) == IF e.threw THEN NaN ELSE e.v
ExprVal(h, w) == ExprValOf(Body([h EXCEPT !.coll = {}], w))

\* executeQueue
RECURSIVE RunBatch(_, _, _)
\* queue.forEach((fn) => fn(newValue, oldValue))
RunBatch(h, batch, i) ==
    IF i > Len(batch) \/ h.threw THEN h
    ELSE RunBatch(CallFn(h, batch[i]), batch, i + 1)
\* ticks.forEach((fn) => fn()): the callbacks see whether watchers are pending
RunTicks(h, nticks) ==
    IF nticks > 0
    THEN [h EXCEPT !.settled = IF Len(h.queue) > 0 THEN "pending" ELSE "quiet"]
    ELSE h
\* if (queueStack.size) setTimeout(executeQueue)
Reschedule(h) == IF Len(h.queue) > 0 THEN [h EXCEPT !.timers = @ + 1] ELSE h
ExecuteQueueOf(h1, nticks) ==
    IF h1.threw THEN h1 ELSE Reschedule(RunTicks(h1, nticks))
ExecuteQueue(h) ==
    ExecuteQueueOf(RunBatch([h EXCEPT !.queue = <<>>, !.ticks = {},
                                      !.passRuns = [w \in Watches |-> 0]],
                            h.queue, 1),
                   Cardinality(h.ticks))

\* ------------------------------------------------------------------ the renderer
\* The value of a watched expression in a template is a list of items: setNode
\* adds each to the partial of the expression, which renders them the first
\* time and patches the nodes it rendered afterwards.  An item is a template,
\* with its literal markup m, its key k (0: none) and the expression e of its
\* slot, or a plain text e.
Markups == {"<li>", "<b><i>"}
BlankHtml == "<!---->"
Tpl(m, k, e) == [t |-> "tpl", m |-> m, k |-> k, e |-> e]
Txt(e) == [t |-> "txt", m |-> "", k |-> 0, e |-> e]
isTpl(item) == item.t = "tpl"
\* the top-level nodes createNodes makes of the markup of one chunk
NodesOf(m) == CASE m = "<b><i>" -> 2 [] m = "" -> 0 [] OTHER -> 1

Keys == 1..MaxKey
Exprs == {0, 1}
NodeIds == 1..MaxNode
Items ==
    {Tpl("<li>", 0, e) : e \in Exprs} \cup {Tpl("<b><i>", 0, 0)}
    \cup {Tpl("<li>", k, 0) : k \in Keys}
    \cup {Txt(e) : e \in Exprs}
\* the lists of items of S an expression returns: no key twice in a list
ListsOf(S) ==
    {l \in UNION {[1..n -> S] : n \in 0..MaxItems} :
        \A i, j \in 1..Len(l) : i # j /\ l[i].k # 0 => l[i].k # l[j].k}
Lists == ListsOf(Items)
\* lists of templates without a key
UnkeyedLists == ListsOf({x \in Items : isTpl(x) /\ x.k = 0})
\* lists of keyed templates; the template of key 1 changes its expression too
KeyedLists == ListsOf({Tpl("<li>", k, 0) : k \in Keys} \cup {Tpl("<li>", 1, 1)})

NoChunk == [html |-> "", key |-> 0, e |-> 0, dom |-> <<>>, tpl |-> Txt(0)]
\* a node: on, a listener of the renderer is attached to the node itself;
\* deep, one is attached to an element nested in it
NoNode == [used |-> FALSE, tag |-> FALSE, text |-> FALSE, val |-> 0,
           on |-> FALSE, deep |-> FALSE]
\* a node assignDomChunks tagged with the group of the partial
Tagged(e) == [used |-> TRUE, tag |-> TRUE, text |-> FALSE, val |-> e,
              on |-> FALSE, deep |-> FALSE]
\* the markup of an element with an @click attribute, and of an element that
\* holds one
OwnMarkup == "<li @click>"
DeepMarkup == "<ul><li @click>"
\* attrs(node, expressions) on the top-level element of the markup and, by
\* fragment(node.childNodes, expressions), on the elements inside it:
\* node.addEventListener(event, expression); listeners.get(node).set(...)
ElementOf(t) ==
    [Tagged(t.e) EXCEPT !.on = (t.m = OwnMarkup), !.deep = (t.m = DeepMarkup)]
\* document.createTextNode(chunk.tpl)
TextNode(e) == [used |-> TRUE, tag |-> FALSE, text |-> TRUE, val |-> e,
                on |-> FALSE, deep |-> FALSE]

Last(s) == IF s = <<>> THEN 0 ELSE s[Len(s)]
First(s) == IF s = <<>> THEN 0 ELSE s[1]
RECURSIVE Flat(_)
Flat(s) == IF s = <<>> THEN <<>> ELSE s[1] \o Flat(Tail(s))
IdxIn(s, e) == CHOOSE i \in 1..Len(s) : s[i] = e

\* the partial and the document, as one record, for the operators below
RCur ==
    [chunks |-> <<>>, pchunks |-> pchunks, keyed |-> keyed, doc |-> doc,
     nodes |-> nodes, toRemove |-> {}, lastNode |-> 0, start |-> 0,
     run |-> <<>>, made |-> <<>>, single |-> FALSE, crashed |-> FALSE,
     full |-> FALSE, how |-> <<>>, subs |-> 0, left |-> 0]
RNone ==
    [chunks |-> <<>>, pchunks |-> <<>>, keyed |-> [k \in Keys |-> NoChunk],
     doc |-> <<>>, nodes |-> [i \in NodeIds |-> NoNode], toRemove |-> {},
     lastNode |-> 0, start |-> 0, run |-> <<>>, made |-> <<>>,
     single |-> FALSE, crashed |-> FALSE, full |-> FALSE, how |-> <<>>,
     subs |-> 0, left |-> 0]

\* expression._up(e) on the descriptors of a chunk: the nodes bound to them
\* show e
Rebind(p, dom, e) ==
    [p EXCEPT !.nodes = [i \in NodeIds |->
                            IF i \in Range(dom) THEN [p.nodes[i] EXCEPT !.val = e]
                            ELSE p.nodes[i]]]
\* chunk.dom = dom; a keyed chunk is the object keyedChunks holds
SetDom(p, i, dom) ==
    [p EXCEPT !.chunks[i].dom = dom,
              !.keyed = IF p.chunks[i].key # 0
                        THEN [@ EXCEPT ![p.chunks[i].key].dom = dom] ELSE @]

\* partial.add(tpl) of a key that keyedChunks holds
AddKeyed(p, item) ==
    [p EXCEPT !.keyed[item.k].e = item.e,
              !.chunks = Append(@, [p.keyed[item.k] EXCEPT !.e = item.e])]
\* partial.add(tpl) of a new chunk
AddNew(p, c) ==
    [p EXCEPT !.chunks = Append(@, c),
              !.keyed = IF c.key # 0 THEN [@ EXCEPT ![c.key] = c] ELSE @]
\* partial.add(tpl)
Add(p, item) ==
    IF item.k # 0 /\ p.keyed[item.k].key # 0
    THEN AddKeyed(Rebind(p, p.keyed[item.k].dom, item.e), item)
    ELSE AddNew(p, [html |-> item.m, key |-> item.k, e |-> item.e,
                    dom |-> <<>>, tpl |-> item])
RECURSIVE AddAll(_, _, _)
\* value.forEach((item) => partial.add(item))
AddAll(p, items, i) ==
    IF i > Len(items) THEN p ELSE AddAll(Add(p, items[i]), items, i + 1)
\* addPlaceholderChunk
AddPlaceholderChunk(p) ==
    [p EXCEPT !.chunks = <<[html |-> BlankHtml, key |-> 0, e |-> 0, dom |-> <<>>,
                            tpl |-> Tpl(BlankHtml, 0, 0)]>>]

\* a node the document did not hold: the first free slot of the store
HasFree(p) == \E i \in NodeIds : ~p.nodes[i].used
MinFree(p) ==
    CHOOSE i \in NodeIds :
        ~p.nodes[i].used /\ \A j \in NodeIds : ~p.nodes[j].used => i <= j
\* chunks[chunkIndex].dom.push(node)
Alloc(p, rec) ==
    IF ~HasFree(p) THEN [p EXCEPT !.full = TRUE]
    ELSE [p EXCEPT !.nodes[MinFree(p)] = rec,
                   !.made[Len(p.made)] = Append(@, MinFree(p))]
RECURSIVE AllocN(_, _, _), BuildChunks(_, _, _)
AllocN(p, n, rec) == IF n = 0 THEN p ELSE AllocN(Alloc(p, rec), n - 1, rec)
\* assignDomChunks(fragment(createNodes(html), expressions)())
BuildChunks(p, tpls, i) ==
    IF i > Len(tpls) THEN p
    ELSE BuildChunks(AllocN([p EXCEPT !.made = Append(@, <<>>)],
                            NodesOf(tpls[i].m), ElementOf(tpls[i])),
                     tpls, i + 1)
\* partial(): the nodes of the chunks that were added, made[i] those of chunk i
Partial(p, tpls) ==
    IF Len(tpls) = 1 /\ ~isTpl(tpls[1])
    THEN Alloc([p EXCEPT !.made = << <<>> >>, !.single = TRUE], TextNode(tpls[1].e))
    ELSE BuildChunks([p EXCEPT !.made = <<>>, !.single = FALSE], tpls, 1)

\* ref.after(...ns) / ref.before(...ns); nothing happens when ref has no parent
Insert(d, ref, ns, after) ==
    IF ref \notin Range(d) THEN d
    ELSE IF after
         THEN SubSeq(d, 1, IdxIn(d, ref)) \o ns \o SubSeq(d, IdxIn(d, ref) + 1, Len(d))
         ELSE SubSeq(d, 1, IdxIn(d, ref) - 1) \o ns \o SubSeq(d, IdxIn(d, ref), Len(d))
Detach(d, ns) == SelectSeq(d, LAMBDA x : x \notin ns)
\* a keyed chunk whose nodes stay where they are
Stay(d, ref, ns, after) == d
\* the same, for nodes that are in the document already
Move(d, ref, ns, after) ==
    IF ref \notin Range(d) THEN d ELSE Insert(Detach(d, Range(ns)), ref, ns, after)

RECURSIVE TransferChunks(_, _, _)
\* transferChunks(subPartial, chunks, startChunking)
TransferChunks(p, made, j) ==
    IF j > Len(made) THEN p
    ELSE TransferChunks(SetDom(p, p.start + j, made[j]), made, j + 1)
\* closeSubPartial, after frag = subPartial()
CloseSubOf(p, r) ==
    IF r.full THEN r
    ELSE IF p.lastNode = 0 THEN [r EXCEPT !.crashed = TRUE]
    ELSE TransferChunks(
            [r EXCEPT !.doc = Insert(@, p.lastNode, Flat(r.made), p.start # 0),
                      !.lastNode = IF r.single THEN 0 ELSE Last(Flat(r.made)),
                      !.run = <<>>],
            r.made, 1)
\* closeSubPartial
CloseSubPartial(p) ==
    IF p.run = <<>> THEN p
    ELSE CloseSubOf(p, Partial([p EXCEPT !.subs = @ + 1], p.run))

\* _up, case 1: a keyed chunk that has been rendered
UpKeyedOf(q, i) ==
    IF q.crashed \/ q.full THEN q
    ELSE IF i <= Len(q.pchunks) /\ q.pchunks[i].dom = q.chunks[i].dom
    THEN [q EXCEPT !.lastNode = Last(q.chunks[i].dom),
                   !.how = Append(@, "keyed")]
    ELSE IF q.lastNode = 0 THEN [q EXCEPT !.crashed = TRUE]
    ELSE [q EXCEPT !.doc = Move(@, q.lastNode, q.chunks[i].dom, i # 1),
                   !.lastNode = Last(q.chunks[i].dom),
                   !.how = Append(@, "keyed")]
\* the previous nodes taken over with the expressions they were bound to
UpReuseStale(q, i) ==
    [SetDom(q, i, q.pchunks[i].dom) EXCEPT !.lastNode = Last(q.pchunks[i].dom)]
\* _up, case 2: the previous chunk at the index has the same markup and no key
UpReuseOf(q, i) ==
    IF q.crashed \/ q.full THEN q
    ELSE [SetDom(IF q.chunks[i].html = BlankHtml THEN q
                 ELSE Rebind(q, q.pchunks[i].dom, q.chunks[i].e),
                 i, q.pchunks[i].dom)
            EXCEPT !.lastNode = Last(q.pchunks[i].dom),
                   !.how = Append(@, "reuse")]
\* _up, case 3: the chunk is rendered by the sub-partial
UpBuild(p, i) ==
    [p EXCEPT !.toRemove =
                  IF /\ i <= Len(p.pchunks)
                     /\ p.pchunks[i].html # p.chunks[i].html
                     /\ p.pchunks[i].key = 0
                  THEN @ \cup Range(p.pchunks[i].dom) ELSE @,
              !.start = IF p.run = <<>> THEN i - 1 ELSE @,
              !.run = Append(@, p.chunks[i].tpl),
              !.how = Append(@, "build")]
\* a reuse that takes the nodes of any previous chunk of the same markup,
\* the one at the index first
Matching(p, i) ==
    {j \in 1..Len(p.pchunks) :
        p.pchunks[j].html = p.chunks[i].html /\ p.pchunks[j].key = 0}
Nearest(p, i) ==
    IF i \in Matching(p, i) THEN i
    ELSE CHOOSE j \in Matching(p, i) : \A k \in Matching(p, i) : j <= k
UpReuseFrom(q, i, j) ==
    IF q.crashed \/ q.full THEN q
    ELSE [SetDom(Rebind(q, q.pchunks[j].dom, q.chunks[i].e), i, q.pchunks[j].dom)
            EXCEPT !.lastNode = Last(q.pchunks[j].dom)]
UpChunkAny(p, i) ==
    IF p.chunks[i].key # 0 /\ p.chunks[i].dom # <<>>
    THEN UpKeyedOf(CloseSubPartial(p), i)
    ELSE IF Matching(p, i) # {}
    THEN UpReuseFrom(CloseSubPartial(p), i, Nearest(p, i))
    ELSE UpBuild(p, i)
\* _up: the body of chunks.forEach, for the chunk at index i - 1
UpChunk(p, i) ==
    IF p.chunks[i].key # 0 /\ p.chunks[i].dom # <<>>
    THEN UpKeyedOf(CloseSubPartial(p), i)
    ELSE IF /\ i <= Len(p.pchunks)
            /\ p.chunks[i].html = p.pchunks[i].html
            /\ p.pchunks[i].key = 0
    THEN UpReuseOf(CloseSubPartial(p), i)
    ELSE UpBuild(p, i)
RECURSIVE UpFrom(_, _)
UpFrom(p, i) ==
    IF p.crashed \/ p.full \/ i > Len(p.chunks) THEN p
    ELSE UpFrom(UpChunk(p, i), i + 1)

\* the siblings after lastNode that carry the group of the partial
Trailing(q) ==
    IF q.lastNode \notin Range(q.doc) THEN {}
    ELSE {q.doc[j] : j \in {j \in 1..Len(q.doc) :
                               /\ j > IdxIn(q.doc, q.lastNode)
                               /\ \A k \in (IdxIn(q.doc, q.lastNode) + 1)..j :
                                      q.nodes[q.doc[k]].tag}}
\* the nodes a chunk of the partial holds
Held(q) ==
    UNION {Range(q.pchunks[i].dom) : i \in 1..Len(q.pchunks)}
    \cup UNION {Range(q.keyed[k].dom) : k \in Keys}
\* a node that is neither in the document nor held by a chunk is garbage
Collect(q) ==
    [q EXCEPT !.nodes = [i \in NodeIds |->
                            IF i \in Range(q.doc) \cup Held(q) THEN q.nodes[i]
                            ELSE NoNode]]
\* reset
Reset(q) ==
    Collect([q EXCEPT !.pchunks = q.chunks, !.chunks = <<>>, !.toRemove = {},
                      !.run = <<>>, !.made = <<>>, !.lastNode = 0, !.start = 0,
                      !.single = FALSE])
\* removeNode, on the record of the node: the listeners the map holds for the
\* node itself are removed from it
RemoveNode(nd) == [nd EXCEPT !.on = FALSE]
\* the nodes of S on which, or inside which, a listener is attached
Listening(q, S) == {i \in S : q.nodes[i].on \/ q.nodes[i].deep}
RemovedOf(q, S) == [q EXCEPT !.left = Cardinality(Listening(q, S))]
\* removeNodes(toRemove); left counts the removed nodes that still listen
RemoveNodes(q, S) ==
    RemovedOf([q EXCEPT !.doc = Detach(@, S),
                        !.nodes = [i \in NodeIds |->
                                      IF i \in S THEN RemoveNode(@[i]) ELSE @[i]]],
              S)
\* _up, after chunks.forEach
UpEnd(q) ==
    IF q.crashed \/ q.full THEN q
    ELSE Reset(RemoveNodes(q, q.toRemove \cup Trailing(q)))
\* _up, from its first line
UpStart(p) ==
    [(IF p.chunks = <<>> THEN AddPlaceholderChunk(p) ELSE p)
        EXCEPT !.lastNode = First(p.pchunks[1].dom)]
\* partial._up()
Up(p) == UpEnd(CloseSubPartial(UpFrom(UpStart(p), 1)))

RECURSIVE AssignDom(_, _, _)
AssignDom(p, made, i) ==
    IF i > Len(made) THEN p ELSE AssignDom(SetDom(p, i, made[i]), made, i + 1)
RECURSIVE TplsOf(_)
TplsOf(cs) == IF cs = <<>> THEN <<>> ELSE <<cs[1].tpl>> \o TplsOf(Tail(cs))
\* the first partial(): its nodes are appended where the expression stands
RenderOf(r) ==
    IF r.full THEN r
    ELSE Reset([AssignDom(r, r.made, 1) EXCEPT !.doc = Flat(r.made)])
RenderTop(p) ==
    RenderOf(Partial(IF p.chunks = <<>> THEN AddPlaceholderChunk(p) ELSE p,
                     IF p.chunks = <<>> THEN <<Tpl(BlankHtml, 0, 0)>>
                     ELSE TplsOf(p.chunks)))
\* setNode(value, partialMemo), the first time and later
SetNodeFirst(items) == RenderTop(AddAll(RNone, items, 1))
SetNode(items) == Up(AddAll(RCur, items, 1))

\* ------------------------------------------------------------------ t
\* The markup of a template is a string; here it is the sequence of the pieces
\* the code concatenates: a literal segment, the delimiter comment, or the
\* text of a value.
delimiterComment == "<!--delimiter-->"
Segment == "<p>"
\* a value that stands in a slot: a function, a string, undefined, or a list
Leaf(val) == [t |-> val.t, v |-> val.v, sub |-> <<>>]
Arr(items) == [t |-> "arr", v |-> 0, sub |-> items]
SlotLeaves == {Leaf(Fn(1)), Leaf(Fn(2)), Leaf(Str(1)), Leaf(Undef)}
SeqsUpTo(S, n) == UNION {[1..k -> S] : k \in 0..n}
RECURSIVE SlotVals(_), SizeOf(_), SizeAll(_)
SlotVals(d) ==
    IF d = 0 THEN SlotLeaves
    ELSE SlotVals(d - 1) \cup {Arr(s) : s \in SeqsUpTo(SlotVals(d - 1), MaxList)}
SizeOf(val) == 1 + SizeAll(val.sub)
SizeAll(s) == IF s = <<>> THEN 0 ELSE SizeOf(s[1]) + SizeAll(Tail(s))
\* the slots of a template: at most n of them
SlotLists(n) ==
    {s \in SeqsUpTo({val \in SlotVals(MaxDepth) : SizeOf(val) <= MaxSize}, n) :
        SizeAll(s) <= MaxSize}
\* html + expression: the string of a value that is no function and no list
Text(val) == CASE val.t = "undef" -> "undefined" [] val.t = "str" -> "a" [] OTHER -> "?"

\* t(strings, ...expSlots): every string is '' (bare) or the same segment
Template(slots, bare) ==
    [slots |-> slots, bare |-> bare, str |-> <<>>, exps |-> <<>>, k |-> 0,
     h |-> <<>>]
NoTemplate == Template(<<>>, TRUE)
RECURSIVE addExpressions(_, _), AddEach(_, _, _)
\* addExpressions(expression, html), with the expressions pushed so far
addExpressions(x, acc) ==
    IF x.t = "fn"
    THEN [html |-> Append(acc.html, delimiterComment),
          exps |-> Append(acc.exps,
                          [e |-> x.v, expression |-> x.v, observer |-> ""])]
    ELSE IF x.t = "arr" THEN AddEach(x.sub, 1, acc)
    ELSE [acc EXCEPT !.html = Append(@, Text(x))]
\* expression.reduce((html, exp) => addExpressions(exp, html), html)
AddEach(items, i, acc) ==
    IF i > Len(items) THEN acc
    ELSE AddEach(items, i + 1, addExpressions(items[i], acc))
\* interlaceTemplate: html += strVal
AddString(tp, acc) ==
    IF tp.bare THEN acc ELSE [acc EXCEPT !.html = Append(@, Segment)]
\* interlaceTemplate: expSlots[i] !== undefined ? addExpressions(...) : html
SlotAdded(tp, i, acc) ==
    IF i <= Len(tp.slots) /\ tp.slots[i].t # "undef"
    THEN addExpressions(tp.slots[i], acc) ELSE acc
RECURSIVE Interlace(_, _, _)
\* strings.reduce(interlaceTemplate, ''): strings has one more entry than expSlots
Interlace(tp, i, acc) ==
    IF i > Len(tp.slots) + 1 THEN acc
    ELSE Interlace(tp, i + 1, SlotAdded(tp, i, AddString(tp, acc)))
Interlaced(tp, acc) == [tp EXCEPT !.str = acc.html, !.exps = acc.exps]
\* toString
StrOf(tp) ==
    IF tp.str # <<>> THEN tp
    ELSE IF tp.slots = <<>> /\ tp.bare THEN [tp EXCEPT !.str = <<BlankHtml>>]
    ELSE Interlaced(tp, Interlace(tp, 1, [html |-> <<>>, exps |-> tp.exps]))
HOf(tp) == [tp EXCEPT !.h = <<tp.str, tp.exps, tp.k>>]
\* template._h = () => [toString(), expressions, template._k]
H(tp) == HOf(StrOf(tp))
\* template.key(key)
Key(tp, key) == [tp EXCEPT !.k = key]

\* no partial yet
NoRender == [op |-> "none", items |-> <<>>, doc0 |-> <<>>, prev0 |-> <<>>,
             nodes0 |-> RNone.nodes, crashed |-> FALSE, n |-> 0,
             how |-> <<>>, subs |-> 0, left |-> 0]
\* ------------------------------------------------------------------ the machine
\* The terminal of the page is a robot3 machine.  A state is described by its
\* transitions (in the order they are declared), its immediate transitions
\* and, for an invoke state, the function it calls.  A guard and a reducer are
\* named by a record [fn, ck, ek]; fn = "" is the default (truthy, identity).
Msgs == {"", "help", "clear", "close", "start x", "goto x"}
\* context.next when it is null
NoNext == "null"
\* the context; output is kept as whether the array is empty, terminalInput
\* as whether it holds the element, error as whether it is truthy
initialTerminalContext ==
    [terminalInput |-> FALSE, input |-> "", outEmpty |-> TRUE, history |-> <<>>,
     historyIndex |-> 0, next |-> NoNext, error |-> FALSE]
CtxKeys == DOMAIN initialTerminalContext
Fun(fn, ck, ek) == [fn |-> fn, ck |-> ck, ek |-> ek]
None == Fun("", "", "")
reduceWithKeysOf(ck, ek) == Fun("reduceWithKeys", ck, ek)
reduceSetKeyValueOf(key, value) == Fun("reduceSetKeyValue", key, value)
guardNextOf(next) == Fun("guardNext", "next", next)
guardKeyZeroOf(key) == Fun("guardKeyZero", key, "")
\* transition(from, to, ...args) and immediate(to, ...args)
transition(from, to, g, r) == [from |-> from, to |-> to, guards |-> g, reducers |-> r]
immediate(to, g, r) == transition("", to, g, r)
\* invoke(fn, onResolveMergeDataThenGo(dst), onRejectStoreErrorThenGo(err))
doThenElse(fn, dst, err) ==
    [fn |-> fn,
     transitions |-> <<transition("done", dst, None, reduceWithKeysOf("data", "data")),
                       transition("error", err, None, reduceWithKeysOf("error", "error"))>>,
     immediates |-> <<>>]
\* state(...args): its transitions and its immediates
state(ts, ims) == [fn |-> "", transitions |-> ts, immediates |-> ims]
\* a switch state whose last case is guarded like the others
createSwitchGuarded(cases) ==
    state(<<>>, [i \in 1..Len(cases) |->
                    immediate(cases[i][1], guardNextOf(cases[i][Len(cases[i])]), None)])
\* createSwitchState(cases): an immediate per case guarded on context.next,
\* next ?? dst, and the last case without a guard; its destination is the
\* array the case is, which names the state by its string value
createSwitchState(cases) ==
    state(<<>>, [i \in 1..Len(cases) |->
                    IF i < Len(cases)
                    THEN immediate(cases[i][1], guardNextOf(cases[i][Len(cases[i])]), None)
                    ELSE immediate(cases[i][1], None, None)])
StateNames ==
    {"closed", "activating", "deactivating", "focus", "clear", "focused",
     "clear-terminal", "eval", "evaluated", "error"}
\* terminalMachine: createMachine("closed", {...}, () => store)
terminalMachine(name) ==
    CASE name = "closed" -> state(<<transition("activate", "activating", None, None)>>, <<>>)
      [] name = "activating" -> doThenElse("terminalActivation", "focus", "closed")
      [] name = "deactivating" -> doThenElse("terminalDeactivation", "closed", "closed")
      [] name = "focus" -> doThenElse("inputFocusing", "focused", "error")
      [] name = "clear" -> doThenElse("inputClearing", "focus", "error")
      [] name = "focused" ->
            state(<<transition("typing", "focused", None, reduceWithKeysOf("input", "message")),
                    transition("next-history", "focused", guardKeyZeroOf("historyIndex"),
                               Fun("reduceNextHistory", "", "")),
                    transition("prev-history", "focused", None,
                               Fun("reducePrevHistory", "", "")),
                    transition("eval", "eval", None, reduceWithKeysOf("input", "message")),
                    transition("focus", "focus", None, None),
                    transition("close-console", "deactivating", None, None),
                    transition("error", "error", None, reduceWithKeysOf("error", "error"))>>,
                  <<>>)
      [] name = "clear-terminal" ->
            state(<<>>, <<immediate("clear", None, reduceSetKeyValueOf("output", "[]"))>>)
      [] name = "eval" -> doThenElse("terminalEvaluation", "evaluated", "error")
      [] name = "evaluated" ->
            createSwitchState(<< <<"deactivating", "close-console">>, <<"clear-terminal">>,
                                 <<"start-dc">>, <<"stop-dc">>, <<"error">>, <<"clear">> >>)
      [] name = "error" -> doThenElse("errorTerminal", "focus", "error")

\* an event: its type, and the message, data or error it carries
Ev(type, message) ==
    [type |-> type, message |-> message, hasData |-> FALSE, set |-> {},
     data |-> initialTerminalContext, error |-> FALSE]
\* data: the keys of the object a promise resolved with, and their values
Data(set, v) == [set |-> set, v |-> v]
NoData == Data({}, initialTerminalContext)
\* a guard that lets every candidate pass
truthy(g, ctx) == TRUE
\* guardKeyZero(key): ctx[key] === 0; guardNext(next): ctx.next === next
guards(g, ctx) ==
    CASE g.fn = "guardKeyZero" -> ctx[g.ck] = 0
      [] g.fn = "guardNext" -> ctx.next = g.ek
      [] OTHER -> TRUE
\* {...ctx, ...(evt.data ? evt.data : {[ck]: evt[ek]}),
\*  ...(evt.error ? {error: evt.error} : {error: null})}
reduceWithKeys(ck, ek, ctx, evt) ==
    [k \in CtxKeys |->
        IF k = "error" THEN evt.error
        ELSE IF evt.hasData THEN (IF k \in evt.set THEN evt.data[k] ELSE ctx[k])
        ELSE IF k = ck /\ ek = "message" THEN evt.message
        ELSE ctx[k]]
\* reduceSetKeyValue("output", [])
reduceSetKeyValue(key, value, ctx) ==
    IF key = "output" /\ value = "[]" THEN [ctx EXCEPT !.outEmpty = TRUE] ELSE ctx
\* history[historyIndex] ?? "", the index counted from 0
HistoryAt(history, i) == IF i >= 0 /\ i < Len(history) THEN history[i + 1] ELSE ""
NextHistoryOf(ctx, history, historyIndex) ==
    [ctx EXCEPT !.input = HistoryAt(history, historyIndex),
                !.historyIndex = historyIndex,
                !.history = history]
reduceNextHistory(ctx) ==
    NextHistoryOf(ctx,
                  IF ctx.historyIndex + 1 = 1 /\ ctx.input # ""
                  THEN Append(ctx.history, ctx.input) ELSE ctx.history,
                  ctx.historyIndex + 1)
reducePrevHistory(ctx) ==
    IF ctx.historyIndex - 1 < 0
    THEN [ctx EXCEPT !.input = "", !.historyIndex = 0]
    ELSE NextHistoryOf(ctx,
                       IF ctx.historyIndex - 1 = 1
                       THEN SubSeq(ctx.history, 1, Len(ctx.history) - 1)
                       ELSE ctx.history,
                       ctx.historyIndex - 1)
\* reducers.call(service, context, fromEvent)
reducers(r, ctx, evt) ==
    CASE r.fn = "reduceWithKeys" -> reduceWithKeys(r.ck, r.ek, ctx, evt)
      [] r.fn = "reduceSetKeyValue" -> reduceSetKeyValue(r.ck, r.ek, ctx)
      [] r.fn = "reduceNextHistory" -> reduceNextHistory(ctx)
      [] r.fn = "reducePrevHistory" -> reducePrevHistory(ctx)
      [] OTHER -> ctx

\* commandConsoleInterpreter(message, ...args) on the words of the input:
\* what it returns, or that it throws
commandConsoleInterpreter(input) ==
    CASE input = "help" -> [t |-> "string", next |-> NoNext]
      [] input = "clear" -> [t |-> "object", next |-> "clear-terminal"]
      [] input = "close" -> [t |-> "object", next |-> "close-console"]
      [] input = "start x" -> [t |-> "object", next |-> "error"]
      [] input = "goto x" -> [t |-> "undefined", next |-> NoNext]
      [] OTHER -> [t |-> "throw", next |-> NoNext]
\* a promise: settled with ok (resolved) or not (rejected), and its data
Promise(ok, hasData, d) == [on |-> TRUE, ok |-> ok, hasData |-> hasData, d |-> d]
NoPromise == [on |-> FALSE, ok |-> FALSE, hasData |-> FALSE, d |-> NoData]
Resolved(ctx, set, v) == [ctx |-> ctx, p |-> Promise(TRUE, TRUE, Data(set, v))]
\* handleEvalResult(ctx, result) as the data of the promise
handleEvalResult(ctx, result) ==
    CASE result.t = "string" ->
            Resolved(ctx, {"outEmpty", "next", "error"},
                     [ctx EXCEPT !.outEmpty = FALSE, !.next = NoNext, !.error = FALSE])
      [] result.t = "object" ->
            Resolved(ctx, {"outEmpty", "next", "error"},
                     [ctx EXCEPT !.outEmpty = FALSE, !.next = result.next,
                                 !.error = (result.next = "error")])
      [] OTHER -> [ctx |-> ctx, p |-> Promise(TRUE, FALSE, NoData)]
\* terminalEvaluation, after ctx.output.push and ctx.history.push
terminalEvaluation(ctx, result) ==
    IF result.t = "throw" THEN [ctx |-> ctx, p |-> Promise(FALSE, FALSE, NoData)]
    ELSE handleEvalResult(ctx, result)
\* errorTerminal, after ctx.output.push when ctx.error is set
errorTerminal(ctx) ==
    IF ctx.terminalInput
    THEN Resolved(ctx, {"outEmpty", "error"}, [ctx EXCEPT !.error = FALSE])
    ELSE [ctx |-> ctx, p |-> Promise(FALSE, FALSE, NoData)]
\* this.fn.call(service, service.context, event): what the function does to
\* the context before it returns, and the promise it returns
invoked(fn, ctx) ==
    CASE fn = "terminalActivation" ->
            Resolved(ctx, {"terminalInput"}, [ctx EXCEPT !.terminalInput = TRUE])
      [] fn = "terminalDeactivation" ->
            Resolved(ctx, {"terminalInput"}, [ctx EXCEPT !.terminalInput = FALSE])
      [] fn = "terminalEvaluation" ->
            terminalEvaluation([ctx EXCEPT !.outEmpty = FALSE,
                                           !.history = Append(@, ctx.input)],
                               commandConsoleInterpreter(ctx.input))
      [] fn = "inputFocusing" -> [ctx |-> ctx, p |-> Promise(TRUE, FALSE, NoData)]
      [] fn = "inputClearing" -> Resolved(ctx, {"input"}, [ctx EXCEPT !.input = ""])
      [] fn = "errorTerminal" ->
            errorTerminal(IF ctx.error THEN [ctx EXCEPT !.outEmpty = FALSE] ELSE ctx)

\* the service: the current state of its machine, its context, the promise
\* of the invoke state it is in; ev, raised and changed tell what the last
\* send did: the type of its event, it threw, it called onChange
Service(current, ctx) ==
    [current |-> current, context |-> ctx, promise |-> NoPromise,
     ev |-> "", raised |-> FALSE, changed |-> FALSE]
RECURSIVE transitionTo(_, _, _, _)
\* invokeFnType.enter
enterInvoke(s, r) == [s EXCEPT !.context = r.ctx, !.promise = r.p]
\* a value, evaluated once
Only(S) == CHOOSE x \in S : TRUE
\* state.enter(newMachine, service, fromEvent): enterImmediate for a state
\* that has immediates (transitionTo(...) || machine), the call of the
\* function for an invoke state, identity otherwise
enterOf(s, evt, st) ==
    IF st.immediates # <<>> THEN transitionTo(s, evt, st.immediates, 1)
    ELSE IF st.fn # "" THEN enterInvoke(s, invoked(st.fn, s.context))
    ELSE s
enter(service, evt) ==
    Only({IF s.current \notin StateNames THEN [s EXCEPT !.raised = TRUE]
          ELSE enterOf(s, evt, terminalMachine(s.current)) : s \in {service}})
\* service.context = reducers.call(service, context, fromEvent); the new
\* machine has current = to
Taken(s, evt, t) ==
    [s EXCEPT !.context = reducers(t.reducers, @, evt), !.current = t.to]
\* transitionTo(service, machine, fromEvent, candidates), from candidate i:
\* the first candidate whose guards pass is taken
transitionTo(service, evt, candidates, i) ==
    Only({IF i > Len(c) THEN s
          ELSE IF guards(c[i].guards, s.context) THEN enter(Taken(s, evt, c[i]), evt)
          ELSE transitionTo(s, evt, c, i + 1) : s \in {service}, c \in {candidates}})
\* state.transitions.get(eventName)
Candidates(name, eventName) ==
    SelectSeq(terminalMachine(name).transitions, LAMBDA t : t.from = eventName)
\* what service.send leaves: the type of the event, raised, changed
Sent(s, evt, raised) == [s EXCEPT !.ev = evt.type, !.raised = raised, !.changed = ~raised]
\* a send that ignores an event the state has no transition for
sendQuietly(service, evt) ==
    Only({IF c # <<>> THEN Sent(transitionTo(s, e, c, 1), e, FALSE)
          ELSE Sent(s, e, FALSE) :
            s \in {service}, e \in {evt}, c \in {Candidates(service.current, evt.type)}})
\* service.send(event): this.machine = send(this, event); this.onChange(this).
\* d._send throws when the state has no transition for the event
send(service, evt) ==
    Only({IF c # <<>> THEN Sent(transitionTo(s, e, c, 1), e, FALSE)
          ELSE Sent(s, e, TRUE) :
            s \in {service}, e \in {evt}, c \in {Candidates(service.current, evt.type)}})
\* the event the promise of an invoke state sends when it settles
SettledEv(p) ==
    [type |-> IF p.ok THEN "done" ELSE "error", message |-> "",
     hasData |-> p.hasData, set |-> p.d.set, data |-> p.d.v, error |-> ~p.ok]
\* interpret(terminalMachine, terminalStateChange)
interpret == Service("closed", initialTerminalContext)

NoPartial ==
    /\ pchunks = <<>>
    /\ keyed = RNone.keyed
    /\ doc = <<>>
    /\ nodes = RNone.nodes
    /\ rlast = NoRender
    /\ tpl = NoTemplate
    /\ svc = interpret

\* ------------------------------------------------------------------ actions
RECURSIVE Created(_, _)
\* w(fn) for each watcher in turn: the first evaluation
Created(h, i) ==
    IF i > Len(WatchOrder) THEN h ELSE Created(CallFn(h, WatchOrder[i]), i + 1)
Built == Created(Built1.h, 1)

NoOp == [op |-> "none", o |-> 0, p |-> "", arg |-> Undef, old |-> Undef,
         res |-> Undef, again |-> Undef]
Zero == [w \in Watches |-> 0]
NoNotes == [w \in Watches |-> {}]

\* the program state an operation leaves
Commit(n) ==
    /\ nobj' = n.nobj
    /\ react' = n.react
    /\ isArr' = n.isArr
    /\ keys' = n.keys
    /\ fld' = n.fld
    /\ omap' = n.omap
    /\ par' = n.par
    /\ obs' = n.obs
    /\ okeys' = n.okeys
    /\ obsProps' = n.obsProps
    /\ deps' = n.deps
    /\ coll' = n.coll
    /\ queue' = n.queue
    /\ ticks' = n.ticks
    /\ timers' = n.timers
    /\ seen' = n.seen
    /\ failed' = n.failed

Starts(b) ==
    /\ nobj = b.nobj
    /\ react = b.react
    /\ isArr = b.isArr
    /\ keys = b.keys
    /\ fld = b.fld
    /\ omap = b.omap
    /\ par = b.par
    /\ obs = b.obs
    /\ okeys = b.okeys
    /\ obsProps = b.obsProps
    /\ deps = b.deps
    /\ coll = b.coll
    /\ queue = b.queue
    /\ ticks = b.ticks
    /\ timers = b.timers
    /\ seen = b.seen
    /\ failed = b.failed
    /\ fresh = b.fresh

Init ==
    /\ Starts(Built)
    /\ inTurn = FALSE
    /\ nwrites = 0
    /\ last = NoOp
    /\ emits = <<>>
    /\ threw = FALSE
    /\ post = <<>>
    /\ notes = NoNotes
    /\ passRuns = Zero
    /\ flushes = 0
    /\ dupRuns = {}
    /\ settled = "none"
    /\ NoPartial

\* the value of root.b when it is an object, else nothing
CurB == IF fld[RootId]["b"].t = "ref" THEN {fld[RootId]["b"].v} ELSE {}

\* ---- the scheduler specification: turns of mutations, and flushes
\* the mutations of a turn: root.a = n, other.x = n
TurnWrites ==
    {<<RootId, "a", v>> : v \in Nums}
    \cup {<<OtherId, "x", v>> : v \in Nums}
\* the mutations of a turn that writes what W1 reads: root.a = n, root.b.c = n
BatchWrites ==
    {<<RootId, "a", v>> : v \in Nums}
    \cup {<<o, "c", v>> : o \in CurB, v \in Nums}

\* application code, inside a synchronous turn: o[p] = value
Mutate(o, p, value) ==
    /\ nwrites < MaxTurnWrites
    /\ inTurn \/ timers < MaxTimers
    /\ nobj + SetNeeds(Cur, o, p, value) <= MaxObj
    /\ \E n \in {Set([Cur EXCEPT !.notes = IF inTurn THEN @ ELSE NoNotes,
                                   !.passRuns = IF inTurn THEN @ ELSE Zero],
                     o, p, value)} :
          /\ Commit(n)
          /\ notes' = n.notes
          /\ passRuns' = n.passRuns
          /\ fresh' = n.fresh
    /\ inTurn' = TRUE
    /\ nwrites' = nwrites + 1
    /\ flushes' = IF inTurn THEN flushes ELSE 0
    /\ dupRuns' = IF inTurn THEN dupRuns ELSE {}
    /\ settled' = IF inTurn THEN settled ELSE "none"
    /\ UNCHANGED <<datalog, rend>>

\* the synchronous code of the turn returns to the event loop
EndTurn ==
    /\ inTurn
    /\ inTurn' = FALSE
    /\ nwrites' = 0
    /\ UNCHANGED <<prog, datalog, notes, passRuns, flushes, fresh, dupRuns, settled>>
    /\ UNCHANGED rend

\* a setTimeout(executeQueue) timer fires
Flush ==
    /\ ~inTurn
    /\ timers > 0
    /\ \E n \in {ExecuteQueue([Cur EXCEPT !.timers = @ - 1])} :
          /\ Commit(n)
          /\ passRuns' = n.passRuns
          /\ fresh' = n.fresh
          /\ settled' = n.settled
    /\ dupRuns' = Range(queue) \cap fresh
    /\ flushes' = IF flushes < 2 THEN flushes + 1 ELSE flushes
    /\ UNCHANGED <<loop, datalog, notes, rend>>

\* the application registers a callback to run after the pending flush
RegisterTick(t) ==
    /\ inTurn
    /\ Len(queue) > 0
    /\ t \notin ticks
    /\ ticks' = ticks \cup {t}
    /\ UNCHANGED <<nobj, react, isArr, keys, fld, omap, par, obs, okeys, obsProps,
                   deps, coll, queue, timers, seen, failed>>
    /\ UNCHANGED <<loop, datalog, schedlog, rend>>

Next ==
    \/ \E m \in TurnWrites : Mutate(m[1], m[2], m[3])
    \/ EndTurn
    \/ Flush
    \/ \E t \in Ticks : RegisterTick(t)

Spec == Init /\ [][Next]_vars

NextBatch ==
    \/ \E m \in BatchWrites : Mutate(m[1], m[2], m[3])
    \/ EndTurn
    \/ Flush

SpecBatch == Init /\ [][NextBatch]_vars

\* ---- the data specification: single operations on the data, each logged
\* the assignments of the application
Assigns ==
    {<<RootId, "a", v>> : v \in Nums}
    \cup {<<RootId, "b", v>> : v \in Nums \cup {Undef} \cup {Plain(k) : k \in 0..MaxNum}}
    \cup {<<o, "c", v>> : o \in CurB \cup {BId0}, v \in Nums}
    \cup {<<OtherId, "x", v>> : v \in Nums}

\* the arguments the application hands to r()
WrapArgs ==
    Nums \cup {Str(0), Str(1), Bool(0), Bool(1), Undef, Fn(1), Null}
    \cup {Plain(k) : k \in {0, LitList}}
    \cup {Ref(o) : o \in {RootId, ListId} \cup CurB}

\* application code: o[p] = value
Write(o, p, value) ==
    /\ nobj + SetNeeds(Cur, o, p, value) <= MaxObj
    /\ \E n \in {IF react[o] THEN Set(Cur, o, p, value) ELSE Store(Cur, o, p, value)} :
          /\ Commit(n)
          /\ emits' = n.emits
          /\ threw' = n.threw
          /\ post' = n.post
          /\ last' = [op |-> "set", o |-> o, p |-> p, arg |-> value,
                      old |-> PropVal(Cur, o, p), res |-> n.fld[o][p],
                      again |-> Undef]
    /\ UNCHANGED <<loop, schedlog, rend>>

\* an assignment whose notifications run the watchers before it returns
AssignThenRun(o, p, value) ==
    /\ timers = 0
    /\ nobj + SetNeeds(Cur, o, p, value) <= MaxObj
    /\ \E n \in {ExecuteQueue(IF react[o] THEN Set(Cur, o, p, value)
                               ELSE Store(Cur, o, p, value))} :
          /\ Commit(n)
          /\ emits' = n.emits
          /\ threw' = n.threw
          /\ post' = n.post
          /\ last' = [op |-> "set", o |-> o, p |-> p, arg |-> value,
                      old |-> PropVal(Cur, o, p), res |-> n.fld[o][p],
                      again |-> Undef]
    /\ UNCHANGED <<loop, schedlog, rend>>
\* application code, a turn of its own, run when no flush is pending: o[p] = value
Assign(o, p, value) == timers = 0 /\ Write(o, p, value)

\* application code: l.push(arg), l.unshift(arg), l.pop(), l.shift() and the
\* other mutating methods of Array.prototype
ListCall(o, name, arg) ==
    /\ timers = 0
    /\ name \in {"push", "unshift"} => Len(keys[o]) < MaxLen
    /\ name = "splice" => Len(keys[o]) + Len(arg.ins) <= MaxLen
    /\ nobj + ArgNeeds(Cur, name, arg) <= MaxObj
    /\ \E n \in {ArrayOperation(Cur, o, name, arg)} :
          /\ Commit(n)
          /\ emits' = n.emits
          /\ threw' = n.threw
          /\ post' = n.post
          /\ last' = [op |-> name, o |-> o, p |-> "", arg |-> arg,
                      old |-> Num(Len(keys[o])), res |-> Num(Len(n.keys[o])),
                      again |-> Undef]
    /\ UNCHANGED <<loop, schedlog, rend>>

\* application code: x1 = r(data); x2 = r(x1)
Wrap(data) ==
    /\ timers = 0
    /\ nobj + RNeeds(Cur, data) <= MaxObj
    /\ \E w1 \in {R(Cur, data, NoState)} : \E w2 \in {R(w1.h, w1.v, NoState)} :
          /\ Commit(w2.h)
          /\ emits' = w2.h.emits
          /\ threw' = w2.h.threw
          /\ post' = w2.h.post
          /\ last' = [op |-> "wrap", o |-> 0, p |-> "", arg |-> data,
                      old |-> Undef, res |-> w1.v, again |-> w2.v]
    /\ UNCHANGED <<loop, schedlog, rend>>

\* a setTimeout(executeQueue) timer fires
Drain ==
    /\ timers > 0
    /\ \E n \in {ExecuteQueue([Cur EXCEPT !.timers = @ - 1])} :
          /\ Commit(n)
          /\ emits' = n.emits
          /\ threw' = n.threw
          /\ post' = n.post
          /\ last' = [NoOp EXCEPT !.op = "flush"]
    /\ UNCHANGED <<loop, schedlog, rend>>

NextData ==
    \/ \E m \in {x \in Assigns : x[2] \in {"b", "c"}} : Assign(m[1], m[2], m[3])
    \/ Drain

SpecData == Init /\ [][NextData]_vars

\* ---- the wrap specification: r() called at any moment between assignments
NextWrap ==
    \/ \E data \in WrapArgs : Wrap(data)
    \/ \E m \in {x \in Assigns : x[2] = "b"} : Assign(m[1], m[2], m[3])
    \/ Drain

SpecWrap == Init /\ [][NextWrap]_vars

\* ---- the list specification: operations on the list l, each logged
ListAssigns ==
    {<<ListId, IdxProps[i], v>> : i \in 1..Len(keys[ListId]), v \in Nums}

NextList ==
    \/ \E m \in ListAssigns : Assign(m[1], m[2], m[3])
    \/ \E name \in {"push", "unshift"}, arg \in Nums : ListCall(ListId, name, arg)
    \/ \E name \in {"pop", "shift"} : ListCall(ListId, name, Undef)
    \/ Drain

SpecList == Init /\ [][NextList]_vars

\* ---- the failing flush specification: assignments made while a flush is
\* pending, among them root.b = undefined, which makes W1 throw on root.b.c
FailWrites ==
    {<<RootId, "a", v>> : v \in Nums}
    \cup {<<RootId, "b", v>> : v \in {Undef, Plain(0)}}
\* application code, before or after a pending flush: o[p] = value
WriteAnyTime(o, p, value) == timers < MaxTimers /\ Write(o, p, value)

NextFail ==
    \/ \E m \in FailWrites : WriteAnyTime(m[1], m[2], m[3])
    \/ Drain

SpecFail == Init /\ [][NextFail]_vars

\* ---- the tree specification: objects and Observables assigned into slots
\* the Observables that have a property c
TreeObjs == {o \in 1..nobj : react[o] /\ "c" \in Range(keys[o])}
TreeAssigns ==
    {<<RootId, "b", v>> : v \in {Plain(LitDeep), Ref(OtherId)}}
    \cup {<<OtherId, "x", v>> : v \in {Num(0), Ref(BId0)}}
    \cup {<<o, "c", v>> : o \in TreeObjs, v \in Nums}

NextTree ==
    \/ \E m \in TreeAssigns : Assign(m[1], m[2], m[3])
    \/ Drain

SpecTree == Init /\ [][NextTree]_vars

\* ---- the list operations specification: every mutating method of the
\* list, numbers and object literals as arguments, and one more watcher,
\*   W6 = w(() => root.l[1])
BuiltOps == CallFn(Built, "W6")

InitOps ==
    /\ Starts(BuiltOps)
    /\ inTurn = FALSE
    /\ nwrites = 0
    /\ last = NoOp
    /\ emits = <<>>
    /\ threw = FALSE
    /\ post = <<>>
    /\ notes = NoNotes
    /\ passRuns = Zero
    /\ flushes = 0
    /\ dupRuns = {}
    /\ settled = "none"
    /\ NoPartial

\* what the application inserts: a number or the object literal {c: 0}
OpsArgs == Nums \cup {Plain(0)}
OpsSplices ==
    {SpliceArgs(st, rm, ins) :
        st \in 0..1, rm \in 0..1, ins \in {<<>>} \cup {<<a>> : a \in OpsArgs}}
OpsCopies == {CopyArgs(tg, st) : tg \in 0..1, st \in 0..1}

NextOps ==
    \/ \E name \in {"push", "unshift", "fill"}, arg \in OpsArgs :
          ListCall(ListId, name, arg)
    \/ \E name \in {"pop", "shift", "sort", "reverse"} : ListCall(ListId, name, Undef)
    \/ \E a \in OpsSplices : ListCall(ListId, "splice", a)
    \/ \E a \in OpsCopies : ListCall(ListId, "copyWithin", a)
    \/ Drain

SpecOps == InitOps /\ [][NextOps]_vars

\* ---- the nesting specification: a watcher that creates a watcher
BuiltNest == CallFn(Built1.h, "W5")

InitNest ==
    /\ Starts(BuiltNest)
    /\ inTurn = FALSE
    /\ nwrites = 0
    /\ last = NoOp
    /\ emits = <<>>
    /\ threw = FALSE
    /\ post = <<>>
    /\ notes = NoNotes
    /\ passRuns = Zero
    /\ flushes = 0
    /\ dupRuns = {}
    /\ settled = "none"
    /\ NoPartial

\* the assignments of the application, also while a flush is pending; the
\* flush that follows makes W5 create a watcher
NestAssigns ==
    {<<RootId, "a", v>> : v \in Nums}
    \cup {<<OtherId, "x", v>> : v \in Nums}
    \cup {<<ListId, "0", v>> : v \in Nums}

NextNest ==
    \/ \E m \in NestAssigns : FreeInners(Cur) # {} /\ Write(m[1], m[2], m[3])
    \/ Drain

SpecNest == InitNest /\ [][NextNest]_vars

\* ---- the rendering specification: one expression, rendered and updated
\* The identities of the nodes are arbitrary: after each operation the nodes
\* are renamed to the order in which they stand in the document, then in the
\* chunks, then in the record of the state before.
RECURSIVE Uniq(_, _)
Uniq(s, acc) ==
    IF s = <<>> THEN acc
    ELSE Uniq(Tail(s), IF s[1] \in Range(acc) THEN acc ELSE Append(acc, s[1]))
DomsOf(cs) == Flat([i \in 1..Len(cs) |-> cs[i].dom])
NodeOrder(n, lg) ==
    Uniq(n.doc \o DomsOf(n.pchunks) \o Flat([k \in Keys |-> n.keyed[k].dom])
         \o lg.doc0 \o DomsOf(lg.prev0), <<>>)
Renamed(s, ord) == [j \in 1..Len(s) |-> IdxIn(ord, s[j])]
RenamedChunks(cs, ord) ==
    [j \in 1..Len(cs) |-> [cs[j] EXCEPT !.dom = Renamed(@, ord)]]
RenamedNodes(store, ord) ==
    [i \in NodeIds |-> IF i <= Len(ord) THEN store[ord[i]] ELSE NoNode]
Canon(n, lg, ord) ==
    [pchunks |-> RenamedChunks(n.pchunks, ord),
     keyed |-> [k \in Keys |-> [n.keyed[k] EXCEPT !.dom = Renamed(@, ord)]],
     doc |-> Renamed(n.doc, ord),
     nodes |-> RenamedNodes(n.nodes, ord),
     rlast |-> [lg EXCEPT !.doc0 = Renamed(@, ord),
                          !.prev0 = RenamedChunks(@, ord),
                          !.nodes0 = RenamedNodes(@, ord)]]
\* the operation that left n, having found the partial as it is now
Done(name, l, n) ==
    [op |-> name, items |-> l, doc0 |-> doc, prev0 |-> pchunks, nodes0 |-> nodes,
     crashed |-> n.crashed,
     n |-> IF rlast.n < MaxUpdates THEN rlast.n + 1 ELSE rlast.n,
     how |-> n.how, subs |-> n.subs, left |-> n.left]

\* the expression is evaluated the first time: setNode(value), and the nodes
\* of the partial are appended to the document
Rendered(l) ==
    \E n \in {SetNodeFirst(l)} :
        /\ ~n.full
        /\ pchunks = n.pchunks
        /\ keyed = n.keyed
        /\ doc = n.doc
        /\ nodes = n.nodes
        /\ rlast = [NoRender EXCEPT !.op = "render", !.items = l]
        /\ tpl = NoTemplate
        /\ svc = interpret
NoCore ==
    /\ Starts(Built)
    /\ inTurn = FALSE
    /\ nwrites = 0
    /\ last = NoOp
    /\ emits = <<>>
    /\ threw = FALSE
    /\ post = <<>>
    /\ notes = NoNotes
    /\ passRuns = Zero
    /\ flushes = 0
    /\ dupRuns = {}
    /\ settled = "none"
InitRender == NoCore /\ \E l \in Lists : Rendered(l)

\* the expression is re-evaluated: setNode(value, partialMemo); nothing is
\* modelled after a TypeError in _up
Update(l) ==
    /\ ~rlast.crashed
    /\ \E n \in {SetNode(l)} :
          /\ ~n.full
          /\ \E c \in {Canon(n, Done("update", l, n), NodeOrder(n, Done("update", l, n)))} :
                /\ pchunks' = c.pchunks
                /\ keyed' = c.keyed
                /\ doc' = c.doc
                /\ nodes' = c.nodes
                /\ rlast' = c.rlast
    /\ UNCHANGED <<prog, loop, datalog, schedlog, tpl, svc>>

\* any list of items, a few updates
NextRender == \E l \in Lists : rlast.n < MaxUpdates /\ Update(l)

SpecRender == InitRender /\ [][NextRender]_vars

\* ---- the listener specification: lists of templates whose elements carry
\* an @click attribute, on the top-level element or on an element inside it
ListenLists ==
    ListsOf({Tpl(OwnMarkup, 0, 0), Tpl(DeepMarkup, 0, 0), Tpl("<li>", 0, 0)})
InitListen == NoCore /\ \E l \in ListenLists : Rendered(l)

NextListen == \E l \in ListenLists : rlast.n < MaxUpdates /\ Update(l)

SpecListen == InitListen /\ [][NextListen]_vars

\* ---- the reuse specification: lists of templates without a key
InitReuse == NoCore /\ \E l \in UnkeyedLists : Rendered(l)

NextReuse == \E l \in UnkeyedLists : Update(l)

SpecReuse == InitReuse /\ [][NextReuse]_vars

\* ---- the keyed specification: lists of keyed templates
InitKeyed == NoCore /\ \E l \in KeyedLists : Rendered(l)

NextKeyed == \E l \in KeyedLists : Update(l)

SpecKeyed == InitKeyed /\ [][NextKeyed]_vars

\* lists of templates, keyed and not, a few updates
MixedLists == ListsOf({Tpl("<li>", 0, 0)} \cup {Tpl("<li>", k, 0) : k \in Keys})
InitMixed == NoCore /\ \E l \in MixedLists : Rendered(l)

NextMixed == \E l \in MixedLists : rlast.n < MaxUpdates /\ Update(l)

SpecMixed == InitMixed /\ [][NextMixed]_vars

\* ---- the template specification: one template, compiled and keyed
InitTpl ==
    /\ NoCore
    /\ pchunks = <<>>
    /\ keyed = RNone.keyed
    /\ doc = <<>>
    /\ nodes = RNone.nodes
    /\ rlast = NoRender
    /\ \E s \in SlotLists(MaxSlots) : \E b \in BOOLEAN : tpl = Template(s, b)
    /\ svc = interpret
CallH ==
    /\ tpl' = H(tpl)
    /\ UNCHANGED <<prog, loop, datalog, schedlog, pchunks, keyed, doc, nodes, rlast, svc>>
CallKey(key) ==
    /\ tpl' = Key(tpl, key)
    /\ UNCHANGED <<prog, loop, datalog, schedlog, pchunks, keyed, doc, nodes, rlast, svc>>
NextTpl == CallH \/ \E key \in 0..MaxKey : CallKey(key)

SpecTpl == InitTpl /\ [][NextTpl]_vars

\* ---- the chained specification: the template html`<p>${() => root.a}<p>` is
\* rendered, which attaches the watcher W7 = w(descriptor, setNode) to the
\* descriptor of its slot; later renders of the same markup rebind the
\* descriptor, and the application writes what the functions read
ChainTpl == H(Template(<<Leaf(Fn(1))>>, FALSE))
BuiltChain == WatchDesc([Built EXCEPT !.exps = ChainTpl.exps], 1, "W7")
\* the expressions array is shared by the template and the tuple _h returned
SetExps(tp, ex) == [tp EXCEPT !.exps = ex, !.h = <<tp.h[1], ex, tp.h[3]>>]

InitChain ==
    /\ Starts(BuiltChain)
    /\ inTurn = FALSE
    /\ nwrites = 0
    /\ last = NoOp
    /\ emits = <<>>
    /\ threw = FALSE
    /\ post = <<>>
    /\ notes = NoNotes
    /\ passRuns = Zero
    /\ flushes = 0
    /\ dupRuns = {}
    /\ settled = "none"
    /\ pchunks = <<>>
    /\ keyed = RNone.keyed
    /\ doc = <<>>
    /\ nodes = RNone.nodes
    /\ rlast = NoRender
    /\ tpl = SetExps(ChainTpl, BuiltChain.exps)
    /\ svc = interpret

\* a chunk of the same markup takes over the chunk rendered before, found by
\* its index ("reuse") or by its key ("keyed"): exp._up(g) for the descriptor
\* of the slot, g the function in the slot of the new template
Rebound(via, g) ==
    /\ \E n \in {DescUp(Cur, 1, g)} :
          /\ Commit(n)
          /\ emits' = n.emits
          /\ threw' = n.threw
          /\ post' = n.post
          /\ tpl' = SetExps(tpl, n.exps)
          /\ last' = [NoOp EXCEPT !.op = "up", !.p = via, !.arg = Fn(g),
                                  !.old = Fn(tpl.exps[1].expression)]
    /\ UNCHANGED <<loop, schedlog, pchunks, keyed, doc, nodes, rlast, svc>>

ChainAssigns ==
    {<<RootId, "a", v>> : v \in Nums} \cup {<<OtherId, "x", v>> : v \in Nums}

NextChain ==
    \/ \E via \in {"reuse", "keyed"}, g \in {1, 2} : Rebound(via, g)
    \/ \E m \in ChainAssigns : Assign(m[1], m[2], m[3])
    \/ Drain

SpecChain == InitChain /\ [][NextChain]_vars

\* ---- the terminal specification: the events the key handlers of the page
\* send to the service, and the promises of the invoke states settling
Events ==
    {Ev(t, "") : t \in {"activate", "focus", "close-console", "next-history",
                        "prev-history"}}
    \cup {Ev("typing", m) : m \in {"", "help"}}
    \cup {Ev("eval", m) : m \in Msgs}
\* the entries the event adds to the history
Pushes(evt) == IF evt.type \in {"eval", "next-history"} THEN 1 ELSE 0
\* terminalMachineService.send(event), from a key handler
\* the body's key handler sends "activate" only while the machine is closed
\* and "focus" only while it is not; the prompt's handler sends the others
Sendable(evt) ==
    /\ evt.type = "activate" => svc.current = "closed"
    /\ evt.type = "focus" => svc.current # "closed"
SendEvent(evt) ==
    /\ Sendable(evt)
    /\ Len(svc.context.history) + Pushes(evt) <= MaxHist
    /\ svc' = send(svc, evt)
    /\ UNCHANGED <<prog, loop, datalog, schedlog, pchunks, keyed, doc, nodes, rlast, tpl>>
\* rn.then(data => service.send({type: 'done', data}))
\*   .catch(error => service.send({type: 'error', error}))
Settle ==
    /\ svc.promise.on
    /\ svc' = send([svc EXCEPT !.promise = NoPromise], SettledEv(svc.promise))
    /\ UNCHANGED <<prog, loop, datalog, schedlog, pchunks, keyed, doc, nodes, rlast, tpl>>
InitTerminal ==
    /\ NoCore
    /\ pchunks = <<>>
    /\ keyed = RNone.keyed
    /\ doc = <<>>
    /\ nodes = RNone.nodes
    /\ rlast = NoRender
    /\ tpl = NoTemplate
    /\ svc = interpret

NextTerminal == (\E evt \in Events : SendEvent(evt)) \/ Settle

SpecTerminal == InitTerminal /\ [][NextTerminal]_vars
\* every promise an invoke state made settles
SpecTerminalLive == SpecTerminal /\ WF_vars(Settle)

\* ------------------------------------------------------------------ properties
Pending(w) == w \in Range(queue)
\* the watcher's last evaluation returned what its expression is worth now
UpToDate(w) == seen[w] = ExprVal(Cur, w)

\* C1 (batching): when several properties read by one watcher are written in
\* one synchronous turn, the watcher is not evaluated during the turn; it is
\* pending when the turn ends; the first flush pass after the turn evaluates
\* it exactly once, on the values the turn left; no later pass runs it again.
C1_Batching ==
    \A w \in Watches :
        Cardinality(notes[w]) >= 2 =>
            /\ flushes = 0 => Pending(w) /\ timers > 0 /\ passRuns[w] = 0
            /\ flushes = 1 => passRuns[w] = 1 /\ UpToDate(w) /\ ~Pending(w)
            /\ flushes = 2 => passRuns[w] = 0 /\ UpToDate(w) /\ ~Pending(w)
C1_Witness ==
    /\ ~inTurn
    /\ flushes = 1
    /\ {"a", "c"} \subseteq notes["W1"]
    /\ passRuns["W1"] = 1
    /\ seen["W1"] = Num(2)

\* C2 (watch liveness): whenever an operation has changed the value of a
\* property a watcher read in its last evaluation, so that the watcher's last
\* result is no longer what its expression is worth, the watcher is in the
\* pending set and a flush timer is armed, so that it will be re-evaluated.
\* This holds for property writes and for list operations alike.
C2_StaleIsPending ==
    \A w \in Watches :
        ~failed[w] /\ ~UpToDate(w) => Pending(w) /\ timers > 0

\* C3 (frame of a mutation): a write of property p of Observable O notifies
\* (and so causes the re-evaluation of) only watchers whose last evaluation
\* read (O, p), or read the slot of a parent that holds O; a watcher that
\* read neither is not re-run by the write.
ReadSlot(c, o, p) == <<o, p>> \in Range(deps[c])
HeldIn(o) == {s \in (1..nobj) \X Props : react[s[1]] /\ fld[s[1]][s[2]] = Ref(o)}
C3_Frame ==
    last.op = "set" /\ react[last.o] /\ ~threw =>
        \A i \in 1..Len(emits) :
            ~failed[emits[i].c] =>
                \/ ReadSlot(emits[i].c, last.o, last.p)
                \/ \E s \in HeldIn(last.o) : ReadSlot(emits[i].c, s[1], s[2])

\* C4 (re-entrancy): a watcher notified by a mutation made inside a flush is
\* captured for a later pass: it is not skipped (while its result is out of
\* date it is pending), a pass is scheduled as long as the pending set is not
\* empty, and no pass runs a watcher that has already been evaluated after
\* its latest notification (no watcher runs twice for one mutation).
C4_Reentrancy ==
    /\ dupRuns = {}
    /\ \A w \in Watches : ~failed[w] /\ ~UpToDate(w) => Pending(w)
    /\ queue # <<>> => timers > 0

\* C5 (settled ordering): the post-flush callbacks registered in a turn fire
\* only when the pending set is empty: after every watcher enqueued in the
\* turn has run and, when a re-run caused a second pass, after that pass.
C5_SettledOrdering == settled \in {"none", "quiet"}

\* C6 (wrap idempotence): for an object or array x, at any moment,
\* r(r(x)) is the very Observable r(x) returned.
C6_WrapIdempotent ==
    last.op = "wrap" /\ last.arg.t \in {"plain", "ref"} =>
        /\ isR(Cur, last.res)
        /\ last.again = last.res
C6_Witness ==
    /\ last.op = "wrap"
    /\ last.arg = Plain(LitList)
    /\ isR(Cur, last.res)
    /\ last.res.v > Built.nobj
    /\ fld[RootId]["b"] # Ref(BId0)

\* C7 (non-object pass-through): for an input that is neither an object nor
\* an array (number, string, boolean, undefined, function, null) r(v)
\* returns v itself, allocates nothing and raises no error.
C7_PassThrough ==
    last.op = "wrap" /\ last.arg.t \notin {"plain", "ref"} =>
        /\ last.res = last.arg
        /\ ~threw

\* the notifications the last operation made to the observers of (o, p)
EmitsAt(o, p) == SelectSeq(emits, LAMBDA e : e.o = o /\ e.p = p)
\* one call of each observer of (o, p), in order, with (nv, ov)
CallsOf(o, p, nv, ov) ==
    [i \in 1..Len(obs[omap[o]][p]) |->
        [o |-> o, p |-> p, c |-> obs[omap[o]][p][i], nv |-> nv, ov |-> ov]]
\* W1 has been evaluated since the last change of what it reads, and obs.b
\* is an Observable
W1Settled == ~failed["W1"] /\ ~Pending("W1") /\ isR(Cur, fld[RootId]["b"])

\* C8 as stated (read tracking): the tracked evaluation of obs.a + obs.b.c
\* records exactly the two leaf properties (obs, a) and (obs.b, c).
C8_TwoLeaves ==
    W1Settled =>
        Range(deps["W1"]) = {<<RootId, "a">>, <<fld[RootId]["b"].v, "c">>}
\* C8 amended (read tracking): the tracked evaluation of obs.a + obs.b.c
\* records exactly the three properties read through an Observable: (obs, a),
\* (obs, b) and (obs.b, c); it records no unread sibling property.
C8_ReadTracking ==
    W1Settled =>
        Range(deps["W1"]) =
            {<<RootId, "a">>, <<RootId, "b">>, <<fld[RootId]["b"].v, "c">>}
C8_Witness ==
    /\ last.op = "flush"
    /\ W1Settled
    /\ fld[RootId]["b"] # Ref(BId0)
    /\ <<fld[RootId]["b"].v, "c">> \in Range(deps["W1"])

\* C9 (direct write notification): a write obs.p = v where the old value is
\* not an Observable, or v is not a plain object, raises no error, stores v
\* and calls every observer of p with (v, old) exactly when old and v differ.
C9_DirectWrite ==
    last.op = "set" /\ react[last.o]
    /\ ~(isR(Cur, last.old) /\ last.arg.t = "plain") =>
        /\ ~threw
        /\ last.arg.t # "plain" => last.res = last.arg
        /\ EmitsAt(last.o, last.p) =
                IF last.old # last.res
                THEN CallsOf(last.o, last.p, last.res, last.old)
                ELSE <<>>

\* C10 (state transfer): when obs.p holds an Observable O and a plain object
\* is written to obs.p, the value stored is a new Observable N with O's
\* observer registry and O's parent link, and for each property q the
\* observers of q on O are called, with (N.q, O.q), exactly when the two
\* values differ.
C10_StateTransfer ==
    last.op = "set" /\ react[last.o]
    /\ isR(Cur, last.old) /\ last.arg.t = "plain" =>
        LET O == last.old.v
            N == last.res.v
        IN /\ isR(Cur, last.res)
           /\ N # O
           /\ ~threw
           /\ omap[N] = omap[O]
           /\ par[N] = par[O]
           /\ par[N] = [k |-> last.p, o |-> last.o]
           /\ \A q \in Props :
                  EmitsAt(O, q) =
                      IF PropVal(Cur, O, q) # PropVal(Cur, N, q)
                      THEN CallsOf(O, q, PropVal(Cur, N, q), PropVal(Cur, O, q))
                      ELSE <<>>
C10_Witness ==
    /\ last.op = "set"
    /\ last.arg = Plain(1)
    /\ isR(Cur, last.old)
    /\ fld[last.old.v]["c"] = Num(0)
    /\ EmitsAt(last.old.v, "c") =
           <<[o |-> last.old.v, p |-> "c", c |-> "W1", nv |-> Num(1), ov |-> Num(0)]>>

\* the step in which the expression of some watcher throws
Fails == \E w \in Watches : ~failed[w] /\ failed'[w]

\* C15 as stated (exception propagation): an exception thrown by a watcher's
\* expression in a re-evaluation that a mutation triggered is raised in the
\* assignment that made the mutation.
C15_RaisedAtMutation == [][Fails => last'.op = "set" /\ threw']_vars
\* C15 amended (exception propagation): an exception thrown by a watcher's
\* expression in a re-evaluation that a mutation triggered is raised from the
\* flush that runs the re-evaluation, which it ends; the assignment that made
\* the mutation has returned before.
C15_RaisedAtFlush ==
    [][Fails => /\ last'.op = "flush" /\ threw'
                /\ timers > 0 /\ timers' = timers - 1]_vars
C15_Witness ==
    /\ last.op = "flush"
    /\ threw
    /\ failed["W1"]
    /\ fld[RootId]["b"] = Undef

\* the (observer registry, property) pairs whose observer set holds w's callback
Registered(w) == {s \in ObjIds \X Props : w \in Range(obs[s[1]][s[2]])}
\* the pairs a tracked evaluation of w's expression reads
ReadsOf(w) == Range(Body([Cur EXCEPT !.coll = {w}], w).h.trk[w])

C19_Deferred ==
    [][last'.op = "set" =>
          /\ seen' = seen /\ deps' = deps /\ failed' = failed
          /\ post' = <<>>
          /\ \A i \in 1..Len(emits') : emits'[i].c \in Range(queue')
          /\ emits' # <<>> => timers' > 0]_vars
C19_Witness ==
    /\ last.op = "set"
    /\ last.p = "c"
    /\ emits # <<>>
    /\ Pending("W1")
    /\ ~UpToDate("W1")

\* the watchers W5 has created so far
Made == {i \in Inners : deps[i] # <<>>}

\* C20 (nested tracking contexts): a read made while several tracked
\* evaluations are active is recorded in each of them: the dependencies of
\* the outer watcher contain every pair the watcher it created read; the
\* inner evaluation finishing leaves the outer context active and intact:
\* the outer watcher keeps what it read before the inner one and records
\* what it reads after it, the collector is empty once both have returned,
\* and a write to what only the inner watcher's expression reads notifies the
\* outer watcher too.
C20_NestedContexts ==
    /\ coll = {}
    /\ \A i \in Made : Range(deps[i]) = {<<OtherId, "x">>}
    /\ \A i \in Made : Range(deps[i]) \subseteq Range(deps["W5"])
    /\ deps["W5"] = <<<<RootId, "a">>, <<OtherId, "x">>, <<ListId, "0">>>>
    /\ SubsOf(Cur, "W5") = Range(deps["W5"])
    /\ last.op = "set" /\ last.o = OtherId /\ last.old # last.res => Pending("W5")
    /\ last.op = "flush" /\ post # <<>> /\ post[Len(post)].c = "W5" =>
            Len(post) >= 2 /\ post[Len(post) - 1].c \in Made
C20_Witness ==
    /\ last.op = "flush"
    /\ Len(post) >= 2
    /\ post[Len(post)].c = "W5"
    /\ post[Len(post) - 1].c = InnerNames[2]
    /\ fld[OtherId]["x"] = Num(1)

\* the chunk of the list before that had key k: its index, 0 when none had
Before(k) ==
    IF \E j \in 1..Len(rlast.prev0) : rlast.prev0[j].key = k
    THEN CHOOSE j \in 1..Len(rlast.prev0) : rlast.prev0[j].key = k
    ELSE 0
\* the update has returned
Updated == rlast.op = "update" /\ ~rlast.crashed

\* C11 (keyed stability): when an update hands the partial keyed chunks that
\* the list before held, in any order, each of them keeps the very nodes it
\* had (the same objects, untouched but for the expression they show), and
\* the nodes of the chunks stand in the document in the order of the new list.
C11_KeyedStability ==
    Updated =>
        /\ \A i \in 1..Len(pchunks) :
               pchunks[i].key # 0 /\ Before(pchunks[i].key) # 0 =>
                   /\ pchunks[i].dom = rlast.prev0[Before(pchunks[i].key)].dom
                   /\ pchunks[i].dom # <<>>
                   /\ \A x \in Range(pchunks[i].dom) :
                          nodes[x] = [rlast.nodes0[x] EXCEPT !.val = pchunks[i].e]
        /\ (\A i \in 1..Len(pchunks) : pchunks[i].key # 0) =>
               SelectSeq(doc, LAMBDA x : x \in Range(DomsOf(pchunks))) = DomsOf(pchunks)
C11_Witness ==
    /\ Updated
    /\ Len(pchunks) = 2 /\ Len(rlast.prev0) = 2
    /\ pchunks[1].key = 2 /\ pchunks[2].key = 1
    /\ rlast.prev0[1].key = 1 /\ rlast.prev0[2].key = 2
    /\ rlast.doc0 = rlast.prev0[1].dom \o rlast.prev0[2].dom
    /\ doc = rlast.prev0[2].dom \o rlast.prev0[1].dom

\* C12: structural reuse. After an update, an unkeyed chunk at index i whose
\* markup equals that of the unkeyed previous chunk at index i holds the very
\* nodes that chunk held, all of them still attached and in the order they had,
\* and each of them is what it was except that it shows the new expression.
Reused(i) ==
    /\ i <= Len(rlast.prev0)
    /\ pchunks[i].key = 0
    /\ rlast.prev0[i].key = 0
    /\ pchunks[i].html = rlast.prev0[i].html
ReusedNodes == UNION {Range(pchunks[i].dom) : i \in {j \in 1..Len(pchunks) : Reused(j)}}
C12_StructuralReuse ==
    Updated =>
        /\ \A i \in 1..Len(pchunks) :
               Reused(i) =>
                   /\ pchunks[i].dom = rlast.prev0[i].dom
                   /\ Range(pchunks[i].dom) \subseteq Range(doc)
                   /\ \A x \in Range(pchunks[i].dom) :
                          nodes[x] = [rlast.nodes0[x] EXCEPT !.val = pchunks[i].e]
        /\ SelectSeq(doc, LAMBDA x : x \in ReusedNodes)
               = SelectSeq(rlast.doc0, LAMBDA x : x \in ReusedNodes)
\* [A, B, C] then [A, B, D], with D the markup of C and another expression
C12_Witness ==
    /\ Updated
    /\ Len(pchunks) = Len(rlast.prev0)
    /\ Len(pchunks) >= 2
    /\ \A i \in 1..Len(pchunks) : Reused(i) /\ pchunks[i].dom # <<>>
    /\ pchunks[Len(pchunks)].e # rlast.prev0[Len(pchunks)].e
    /\ doc = rlast.doc0

\* C13: shrink trims trailing nodes. After an update to a list shorter than
\* the previous one, no node of a previous chunk that no current chunk holds
\* is attached any more, and every node a current chunk holds is attached and
\* shows the expression of its chunk.
Shrunk == Updated /\ Len(pchunks) < Len(rlast.prev0)
Unclaimed == Range(DomsOf(rlast.prev0)) \ Range(DomsOf(pchunks))
C13_ShrinkTrims ==
    Shrunk =>
        /\ Unclaimed \cap Range(doc) = {}
        /\ \A i \in 1..Len(pchunks) :
               /\ Range(pchunks[i].dom) \subseteq Range(doc)
               /\ \A x \in Range(pchunks[i].dom) : nodes[x].val = pchunks[i].e

\* C14: stable anchor. A partial to which no chunk was added is rendered, and
\* reconciled, as one placeholder chunk with one node; and after every render
\* and every update the first chunk of the previous chunk list holds at least
\* one node that is attached.
C14_StableAnchor ==
    rlast.op # "none" /\ ~rlast.crashed =>
        /\ rlast.items = <<>> =>
               /\ Len(pchunks) = 1
               /\ pchunks[1].html = BlankHtml
               /\ Len(pchunks[1].dom) = 1
        /\ pchunks # <<>>
        /\ Range(pchunks[1].dom) \cap Range(doc) # {}

\* C17: output exactness. After every update the nodes of the partial that
\* are attached are exactly the nodes of the chunks of the new chunk list, in
\* the order of the list.
C17_OutputExact == Updated => doc = DomsOf(pchunks)

\* C16: template compilation. Once the markup of a template with slots is
\* computed, it holds one delimiter comment for every function in its slots,
\* functions inside lists at any depth included; the expression descriptors
\* are those functions in the order of their delimiters; and the markup is
\* the literal segments with, at the place of each slot, the delimiter of
\* each function and the text of every value that is no function and no list.
RECURSIVE Flattened(_, _)
Flattened(s, i) ==
    IF i > Len(s) THEN <<>>
    ELSE (IF s[i].t = "arr" THEN Flattened(s[i].sub, 1) ELSE <<s[i]>>)
         \o Flattened(s, i + 1)
Piece(x) == IF x.t = "fn" THEN delimiterComment ELSE Text(x)
Pieces(s) == [j \in 1..Len(s) |-> Piece(s[j])]
RECURSIVE Inlined(_, _)
Inlined(tp, i) ==
    IF i > Len(tp.slots) THEN <<>>
    ELSE Pieces(Flattened(<<tp.slots[i]>>, 1))
         \o (IF tp.bare THEN <<>> ELSE <<Segment>>) \o Inlined(tp, i + 1)
FnsOf(s) == SelectSeq(Flattened(s, 1), LAMBDA x : x.t = "fn")
Compiled == tpl.h # <<>> /\ tpl.slots # <<>>
C16_TemplateCompilation ==
    Compiled =>
        /\ Len(SelectSeq(tpl.h[1], LAMBDA x : x = delimiterComment)) = Len(FnsOf(tpl.slots))
        /\ Len(tpl.h[2]) = Len(FnsOf(tpl.slots))
        /\ \A j \in 1..Len(tpl.h[2]) : tpl.h[2][j].e = FnsOf(tpl.slots)[j].v
        /\ tpl.h[1] = (IF tpl.bare THEN <<>> ELSE <<Segment>>) \o Inlined(tpl, 1)

\* C21: lock-step maps. In every state, for every observer registry, a
\* callback is in the observer set of a property exactly when the property is
\* in the set observerProperties holds for the callback.
C21_LockStep ==
    \A m \in ObjIds : \A p \in Props : \A c \in Watches :
        c \in Range(obs[m][p]) <=> p \in obsProps[m][c]
\* root.b = other has merged the observers of the replaced object into
\* other, and the flush after it has unsubscribed W1 from the replaced one
C21_Witness ==
    /\ last.op = "flush"
    /\ fld[RootId]["b"] = Ref(OtherId)
    /\ "W1" \in Range(obs[omap[OtherId]]["c"])
    /\ "c" \in obsProps[omap[OtherId]]["W1"]
    /\ "W1" \notin Range(obs[omap[BId0]]["c"])
    /\ "c" \notin obsProps[omap[BId0]]["W1"]

\* C22: nested wrapping. In every state, after construction and after any
\* sequence of property writes, every property of an Observable that holds an
\* object or an array holds an Observable.
C22_NestedWrapped ==
    \A o \in 1..nobj : \A p \in Props :
        react[o] /\ fld[o][p].t = "ref" => react[fld[o][p].v]

\* the Observables above o in the tree of parent links
RECURSIVE Above(_, _)
Above(o, n) ==
    IF n = 0 \/ par[o] = NoParent THEN {}
    ELSE {par[o].o} \cup Above(par[o].o, n - 1)
\* the last operation was a write through the set trap that took the direct
\* branch and returned normally
DirectWrite ==
    /\ last.op = "set"
    /\ react[last.o]
    /\ ~(Truthy(last.arg) /\ isR(Cur, last.old))
    /\ ~threw

\* C23 (parent bubbling): a direct write that changes property q of an
\* Observable C whose parent link is (k, P) calls each subscriber of k on P
\* once, with P as the new value, and calls no subscriber of any Observable
\* above P.
C23_ParentBubbling ==
    DirectWrite /\ last.old # last.res /\ par[last.o] # NoParent =>
        /\ EmitsAt(par[last.o].o, par[last.o].k)
              = CallsOf(par[last.o].o, par[last.o].k, Ref(par[last.o].o), Undef)
        /\ \A i \in 1..Len(emits) : emits[i].o \notin Above(par[last.o].o, MaxObj)
\* a write two levels below the root has notified the subscriber of its
\* parent while the root has a subscriber at the parent's property
C23_Witness ==
    /\ DirectWrite /\ last.old # last.res /\ par[last.o] # NoParent
    /\ Len(EmitsAt(par[last.o].o, par[last.o].k)) > 0
    /\ par[par[last.o].o] # NoParent
    /\ Len(obs[omap[par[par[last.o].o].o]][par[par[last.o].o].k]) > 0

\* C24 (single parent): after an already-observable value V is assigned into
\* slot k of an Observable P, whatever the slot held before, the parent link
\* of V is (k, P).
C24_SingleParent ==
    last.op = "set" /\ react[last.o] /\ isR(Cur, last.arg) /\ ~threw =>
        par[last.arg.v] = [k |-> last.p, o |-> last.o]
\* C24 restricted to a slot that held an Observable with a parent link
C24_OverObservable ==
    /\ last.op = "set" /\ react[last.o] /\ isR(Cur, last.arg) /\ ~threw
    /\ isR(Cur, last.old) /\ par[last.old.v] = [k |-> last.p, o |-> last.o]
    => par[last.arg.v] = [k |-> last.p, o |-> last.o]

\* the mutating methods of a list
ListOps ==
    {"push", "pop", "shift", "unshift", "splice", "sort", "reverse", "fill",
     "copyWithin"}
\* one call of each observer of each index of the list o as it is now, with
\* the element now at the index, then one call of each observer of pr
Notified(o, pr) ==
    Flat([i \in 1..Len(keys[o]) |->
            CallsOf(o, IdxProps[i], fld[o][IdxProps[i]], Undef)])
    \o (IF pr # NoParent THEN CallsOf(pr.o, pr.k, Ref(o), Undef) ELSE <<>>)

\* C25 (list mutation notification): what a mutating operation of an
\* Observable list notifies is exactly one notification per index of the
\* resulting list, carrying the element the mutation left at that index, and
\* after them exactly one notification of the parent at the property name of
\* the list.
C25_ListNotification ==
    last.op \in ListOps => emits = Notified(last.o, par[last.o])
\* an operation that shifted the elements of a list of at least two has
\* called the observers of two indexes and of the parent
C25_Witness ==
    /\ last.op \in {"unshift", "splice", "reverse"}
    /\ last.old # last.res \/ last.op = "reverse"
    /\ Len(keys[last.o]) >= 2
    /\ Len(EmitsAt(last.o, "0")) > 0 /\ Len(EmitsAt(last.o, "1")) > 0
    /\ par[last.o] # NoParent
    /\ Len(EmitsAt(par[last.o].o, par[last.o].k)) > 0

\* C26 (inserted elements are wrapped): after push, unshift, splice or fill
\* every element of the list that is an object is an Observable.
C26_InsertedWrapped ==
    last.op \in {"push", "unshift", "splice", "fill"} =>
        \A i \in 1..Len(keys[last.o]) :
            fld[last.o][IdxProps[i]].t = "ref" => react[fld[last.o][IdxProps[i]].v]
\* an object literal was inserted and is in the list
C26_Witness ==
    /\ last.op \in {"push", "unshift", "splice", "fill"}
    /\ last.arg = Plain(0) \/ (last.op = "splice" /\ last.arg.ins = <<Plain(0)>>)
    /\ \E i \in 1..Len(keys[last.o]) :
          /\ fld[last.o][IdxProps[i]].t = "ref"
          /\ fld[last.o][IdxProps[i]].v > OtherId

\* the nodes that existed before the last update
OldNodes == Range(rlast.doc0) \cup Range(DomsOf(rlast.prev0))
\* the previous unkeyed chunks, at another index than i, whose markup is
\* that of the chunk at i
Elsewhere(i) ==
    {j \in 1..Len(rlast.prev0) :
        /\ j # i
        /\ rlast.prev0[j].key = 0
        /\ rlast.prev0[j].html = pchunks[i].html}

\* C27 (position is the sole disambiguator): after an update, the nodes an
\* unkeyed chunk at index i holds that existed before are nodes of the
\* previous chunk at index i; and when the markup of that chunk differs, or
\* there is none, every node the chunk holds is new, whatever markup the
\* previous chunks at other indexes have.
C27_PositionOnly ==
    Updated =>
        \A i \in 1..Len(pchunks) :
            pchunks[i].key = 0 =>
                /\ Range(pchunks[i].dom) \cap OldNodes
                      \subseteq (IF i <= Len(rlast.prev0)
                                 THEN Range(rlast.prev0[i].dom) ELSE {})
                /\ ~Reused(i) => Range(pchunks[i].dom) \cap OldNodes = {}
\* a chunk was rebuilt although a previous chunk at another index had its
\* markup
C27_Witness ==
    /\ Updated
    /\ \E i \in 1..Len(pchunks) :
          /\ pchunks[i].key = 0
          /\ i <= Len(rlast.prev0)
          /\ rlast.prev0[i].key = 0
          /\ rlast.prev0[i].html # pchunks[i].html
          /\ Elsewhere(i) # {}
          /\ pchunks[i].dom # <<>>
          /\ Range(pchunks[i].dom) \cap OldNodes = {}
          /\ Range(pchunks[i].dom) \subseteq Range(doc)

\* the chunk at index i was handed to the sub-partial by the last update
BuiltAt(i) == rlast.how[i] = "build"
\* the indexes at which a maximal run of such chunks starts
RunStarts == {i \in 1..Len(pchunks) : BuiltAt(i) /\ (i = 1 \/ ~BuiltAt(i - 1))}
\* the previous chunk at index i had no key and another markup
Mismatched(i) ==
    /\ i <= Len(rlast.prev0)
    /\ rlast.prev0[i].key = 0
    /\ rlast.prev0[i].html # pchunks[i].html
\* the position in the document of node x
PosOf(x) == IdxIn(doc, x)

\* C28 (mismatch rebuild), removal: after an update, no node of an unkeyed
\* previous chunk whose markup differs from that of the new chunk at its
\* index is attached.
C28_Removed ==
    Updated =>
        \A i \in 1..Len(pchunks) :
            Mismatched(i) => Range(rlast.prev0[i].dom) \cap Range(doc) = {}
\* C28 (mismatch rebuild), sub-renders: the update has rendered once for each
\* maximal run of new chunks; every chunk of a run holds exactly the nodes
\* made for it, new nodes that show its expression, attached; the nodes of a
\* run stand together in the order of its chunks, those of the first chunk
\* right after the nodes of the chunk before the run, or first in the
\* document when the run starts the list.
C28_Runs ==
    Updated =>
        /\ rlast.subs = Cardinality(RunStarts)
        /\ \A i \in 1..Len(pchunks) :
               BuiltAt(i) =>
                   /\ Len(pchunks[i].dom)
                         = (IF isTpl(pchunks[i].tpl) THEN NodesOf(pchunks[i].tpl.m) ELSE 1)
                   /\ Range(pchunks[i].dom) \cap OldNodes = {}
                   /\ Range(pchunks[i].dom) \subseteq Range(doc)
                   /\ \A x \in Range(pchunks[i].dom) : nodes[x].val = pchunks[i].e
                   /\ \A j \in 1..Len(pchunks) :
                          j # i => Range(pchunks[j].dom) \cap Range(pchunks[i].dom) = {}
                   /\ \A k \in 1..(Len(pchunks[i].dom) - 1) :
                          PosOf(pchunks[i].dom[k + 1]) = PosOf(pchunks[i].dom[k]) + 1
                   /\ PosOf(pchunks[i].dom[1])
                         = (IF i = 1 THEN 1 ELSE PosOf(Last(pchunks[i - 1].dom)) + 1)
\* C28 (mismatch rebuild): both parts
C28_MismatchRebuild == C28_Removed /\ C28_Runs

\* the partial holds one chunk, a plain value
OnePlain(cs) == Len(cs) = 1 /\ ~isTpl(cs[1].tpl)
\* the chunk holds one node, an attached text node made by
\* document.createTextNode that shows the value of the chunk
OneText ==
    /\ Len(pchunks[1].dom) = 1
    /\ nodes[pchunks[1].dom[1]] = TextNode(pchunks[1].e)
    /\ pchunks[1].dom[1] \in Range(doc)

\* C29 (plain-value partial): a partial that holds exactly one chunk, a
\* plain value, has rendered exactly one text node, made without a markup
\* parse; and after an update of such a partial with another single plain
\* value the chunk holds the text node it held, which is what it was but for
\* its text.
C29_PlainValue ==
    rlast.op # "none" /\ ~rlast.crashed /\ OnePlain(pchunks) =>
        /\ OneText
        /\ rlast.op = "render" => doc = pchunks[1].dom
        /\ rlast.op = "update" /\ OnePlain(rlast.prev0) =>
               /\ pchunks[1].dom = rlast.prev0[1].dom
               /\ nodes[pchunks[1].dom[1]]
                     = [rlast.nodes0[pchunks[1].dom[1]] EXCEPT !.val = pchunks[1].e]
\* C29 for a partial whose previous chunks held a node each
C29_AfterNodes ==
    (\A i \in 1..Len(rlast.prev0) : rlast.prev0[i].dom # <<>>) => C29_PlainValue

\* what an evaluation of function f reads, and what it returns now
FnReads(f) == IF f = 1 THEN {<<RootId, "a">>} ELSE {<<OtherId, "x">>}
ValueOf(f) == IF f = 1 THEN fld[RootId]["a"] ELSE fld[OtherId]["x"]
\* the evaluations of W7 the last operation made
RunsOfW7 == SelectSeq(post, LAMBDA e : e.c = "W7")

\* C30 (chained reactivity): rebinding the descriptor to a function makes the
\* watcher attached to it run once, before the rebinding returns; the run
\* evaluates the function just bound: it returns the value of that function
\* and leaves the watcher subscribed to what that function reads. Every
\* later run of the watcher evaluates the function bound last.
C30_ChainedReactivity ==
    /\ last.op = "up" =>
          /\ tpl.exps[1].expression = last.arg.v
          /\ Len(RunsOfW7) = 1
          /\ seen["W7"] = ValueOf(last.arg.v)
    /\ \A i \in 1..Len(RunsOfW7) :
          RunsOfW7[i].subs = FnReads(tpl.exps[1].expression)
\* the descriptor was bound to () => root.a and is rebound to () => other.x,
\* whose value differs
C30_Witness ==
    /\ last.op = "up"
    /\ last.old = Fn(1) /\ last.arg = Fn(2)
    /\ ValueOf(1) # ValueOf(2)
    /\ Len(RunsOfW7) = 1
    /\ seen["W7"] = ValueOf(2)

\* the subscriptions of w before and after the step are the same, in the
\* observers maps and in the reverse maps
SameSubs(w) ==
    /\ \A m \in ObjIds : \A p \in Props :
           (w \in Range(obs'[m][p])) <=> (w \in Range(obs[m][p]))
    /\ \A m \in ObjIds : obsProps'[m][w] = obsProps[m][w]
\* the steps in which a re-run that threw is all the flush did
FailsAlone == last'.op = "flush" /\ threw' /\ post' = <<>>

C32_RegistryScope == coll = {}
\* the entries that stay are those of watchers whose last evaluation threw
C32_OnlyFailed == \A w \in coll : failed[w]

\* the last operation wrote to an Observable the value its property held
SameWrite == last.op = "set" /\ react[last.o] /\ last.arg = last.old
\* C34 (no-op write is silent): a write that stores the value the property
\* already holds, a scalar or an Observable, calls no subscriber: none of the
\* property and none of the parent at the child's property name.
C34_NoOpSilent == SameWrite => emits = <<>>
\* the subscribers of the written property itself stay silent when a scalar
\* is written over the same scalar
C34_ScalarOwnSilent ==
    SameWrite /\ last.old.t # "ref" => EmitsAt(last.o, last.p) = <<>>

\* the watchers the flush of this step re-evaluated to the end
RanNow == {post'[i].c : i \in 1..Len(post')}
\* the watcher whose expression threw in the flush of this step: the first of
\* the batch that was not evaluated to the end
Thrower == queue[CHOOSE i \in 1..Len(queue) :
                    /\ queue[i] \notin RanNow
                    /\ \A j \in 1..(i - 1) : queue[j] \in RanNow]
\* C35 (flush survives a failing watcher): when a watcher throws in a flush,
\* every other watcher of the batch has been re-evaluated by that flush or is
\* still pending after it.
C35_FlushSurvives ==
    [][last'.op = "flush" /\ threw' =>
          \A v \in Range(queue) \ {Thrower} :
              v \in RanNow \/ v \in Range(queue')]_vars
\* the watchers of the batch that ran before the one that threw have been
\* re-evaluated
C35_RanBefore ==
    [][last'.op = "flush" /\ threw' =>
          \A i \in 1..Len(queue) :
              (\E j \in (i + 1)..Len(queue) : queue[j] = Thrower) =>
                  queue[i] \in RanNow]_vars

\* the element at index i of the list o (i counted from 1)
ElemAt(o, i) == fld[o][IdxProps[i]]
\* C36 (list element parent links): after a mutating list operation every
\* Observable element at an index of the list has the parent link (index,
\* list): the elements push, unshift and splice inserted and the elements
\* whose index shift, sort or reverse changed.
C36_ElementLinks ==
    last.op \in ListOps =>
        \A i \in 1..Len(keys[last.o]) :
            isR(Cur, ElemAt(last.o, i)) =>
                par[ElemAt(last.o, i).v] = [k |-> IdxProps[i], o |-> last.o]
\* the Observable elements a list operation inserted have no parent link
C36_InsertedNoLink ==
    last.op \in ListOps =>
        \A i \in 1..Len(keys[last.o]) :
            isR(Cur, ElemAt(last.o, i)) => par[ElemAt(last.o, i).v] = NoParent

\* the nodes the last update took out of the document
Removed == Range(rlast.doc0) \ Range(doc)
\* C33 (listener teardown): after an update that removed nodes, no listener
\* the renderer bound is attached to a removed node or to an element nested
\* in one.
C33_ListenerTeardown ==
    rlast.op = "update" /\ ~rlast.crashed /\ Removed # {} => rlast.left = 0
\* the listeners bound on the removed top-level nodes themselves are detached
C33_TopDetached ==
    rlast.op = "update" /\ ~rlast.crashed =>
        rlast.left = Cardinality({i \in Removed : rlast.nodes0[i].deep})

\* the candidates of the event of this step in the state it was sent in
Declared == Candidates(svc.current, svc'.ev)
Guarded == \A i \in 1..Len(Declared) : ~guards(Declared[i].guards, svc.context)
SameMachine == svc'.current = svc.current /\ svc'.context = svc.context
\* C37 (unhandled machine event): a send of an event for which the current
\* state declares no transition raises an error, leaves the current state and
\* the context as they were and does not call onChange; a send of an event
\* whose transitions all fail their guards leaves state and context as they
\* were and raises nothing.
C37_UnhandledEvent ==
    [][/\ Declared = <<>> => svc'.raised /\ SameMachine /\ ~svc'.changed
       /\ Declared # <<>> => ~svc'.raised
       /\ Declared # <<>> /\ Guarded => SameMachine]_vars
\* a key typed while the evaluation is pending was refused
C37_Witness ==
    /\ svc.raised /\ svc.ev = "typing" /\ ~svc.changed
    /\ svc.current = "eval" /\ svc.promise.on

\* C38 (terminal history index): context.historyIndex is 0 or 1 in every
\* state; the next-history transition is taken only when it is 0 and sets it
\* to 1, and prev-history never takes it below 0.
C38_HistoryIndex ==
    /\ [](svc.context.historyIndex \in {0, 1})
    /\ [][/\ svc'.ev = "next-history" /\ svc'.context # svc.context =>
                svc.context.historyIndex = 0 /\ svc'.context.historyIndex = 1
          /\ svc'.ev = "prev-history" => svc'.context.historyIndex >= 0]_vars
\* prev-history after next-history: the index is 0 again and the input is the
\* first entry of the history
C38_Witness ==
    /\ svc.ev = "prev-history" /\ ~svc.raised
    /\ svc.context.historyIndex = 0
    /\ svc.context.history # <<>>
    /\ svc.context.input = svc.context.history[1]

\* the invoke states the evaluation of a command passes through
Working == {"eval", "clear", "focus", "error"}
\* the step in which the promise of the evaluation resolved
EvalDone == svc.current = "eval" /\ svc'.ev = "done" /\ ~svc'.raised
\* where the evaluated state sends the machine, by context.next
RoutedTo(next) ==
    CASE next = "close-console" -> "deactivating"
      [] next = "error" -> "error"
      [] OTHER -> "clear"
\* C39 (terminal eval always settles): the machine is never found in
\* evaluated or clear-terminal; when the evaluation resolves, the evaluated
\* state routes on context.next: close-console to deactivating,
\* clear-terminal through clear-terminal, which empties the output, error to
\* error and anything else to clear; and when every promise settles the
\* machine does not stay in eval, clear, focus or error: it reaches focused
\* or closed.
C39_EvalSettles ==
    /\ [](svc.current \notin {"evaluated", "clear-terminal"})
    /\ [][EvalDone =>
            /\ svc'.current = RoutedTo(svc'.context.next)
            /\ svc'.context.outEmpty <=> svc'.context.next = "clear-terminal"]_vars
    /\ (svc.current \in Working) ~> (svc.current \in {"focused", "closed"})
\* the command clear was evaluated and the machine is back in focused, the
\* output emptied
C39_Witness ==
    /\ svc.current = "focused" /\ svc.ev = "done"
    /\ svc.context.next = "clear-terminal"
    /\ svc.context.outEmpty
    /\ svc.context.history # <<>>

\* C40 (single pending flush): at most one flush is scheduled and not yet
\* run, and when watchers are pending at the end of a turn, or after a flush
\* in which watchers were enqueued, exactly one is.
C40_SinglePendingFlush ==
    /\ timers <= 1
    /\ ~inTurn /\ queue # <<>> => timers = 1
\* a flush is scheduled whenever a watcher is pending
C40_Scheduled == queue # <<>> => timers >= 1

====
